---- MODULE Spec2Model ----
(***************************************************************************)
(* A model of the tiered Socrata ingestion pipeline:                       *)
(*   - SocrataResource.fetch_data   (retry loop and one-slot cache)        *)
(*   - build_medium_socrata_asset   (offset paging into flat raw chunks)   *)
(*   - PolarsParquetIOManager       (paths, write_chunk, null pruning)     *)
(*   - generic_transform / _auto_transform (schema transform engine)       *)
(*                                                                         *)
(* Strings the code takes apart (column names, order expressions) are      *)
(* sequences of one-character strings; strings the code only compares are  *)
(* TLA+ strings.                                                           *)
(*                                                                         *)
(* A fetch_data call is one step per GET: a step ends where the code       *)
(* sleeps (socrata_resource.py lines 75, 89) or has returned, and the      *)
(* dataset may change between two steps.  A raw run writes a fetched page  *)
(* in a step of its own.  fetch_data calls do not overlap: the cache is a  *)
(* class attribute of one process, whose steps run one after another.      *)
(* What an asset function returns to the framework is written by the io    *)
(* manager's handle_output in a later step: the frame of the single raw    *)
(* run, the LazyFrame of the single clean run (executed only then).        *)
(***************************************************************************)
EXTENDS Integers, Sequences, FiniteSets, TLC

VARIABLES
    cache,      \* SocrataResource._cache: the class-level one-slot cache
    call,       \* the fetch_data call made directly, in flight or most recent (observation)
    netlast,    \* history: the most recent fetch_data call that returned through the network
    source,     \* the rows the API serves for the asset's endpoint (row ids, ordered)
    disk,       \* the raw lake: path -> frame written there
    run,        \* the single or medium raw_asset run in progress or last finished
    xf,         \* the most recent auto-transform application (observation)
    job,        \* the asset the builders were called for: tier and build arguments
    lrun,       \* the large raw_asset run in progress or last finished
    clean,      \* the clean_asset run under way, or made since the last raw run began
    build,      \* the most recent builder call (observation)
    pcall,      \* the path resolver calls made and the paths they returned (observation)
    wh          \* the warehouse builder: the lake it reads, the warehouse files, the build under way

vars == <<cache, call, netlast, source, disk, run, xf, job, lrun, clean, build, pcall, wh>>

(***************************************************************************)
(* Bounds of the model.                                                    *)
(***************************************************************************)
\* Row ids the API can serve are 1..MaxRow.
MaxRow == 2
\* Page sizes ($limit) the builders are instantiated with are 1..MaxLimit.
MaxLimit == 2
\* Raw runs started for the medium asset.
MaxRuns == 2
\* Times the dataset changes on the portal.
MaxChanges == 1

(***************************************************************************)
(* Program constants, socrata_resource.py lines 15-17.                     *)
(***************************************************************************)
MAX_READ_RETRIES == 3
MAX_EMPTY_RETRIES == 2
BACKOFF_FACTOR_S == 1

(***************************************************************************)
(* Small helpers.                                                          *)
(***************************************************************************)
Min(a, b) == IF a < b THEN a ELSE b

RECURSIVE Pow2(_)
Pow2(n) == IF n <= 0 THEN 1 ELSE 2 * Pow2(n - 1)

Range(s) == {s[i] : i \in DOMAIN s}

\* Body applied to the value of v, computed once.
With(v, Body(_)) == CHOOSE out \in {Body(x) : x \in {v}} : TRUE

\* Numbers inside file names are written digit by digit.
DigitChars == <<"0", "1", "2", "3", "4", "5", "6", "7", "8", "9">>

\* str(n) of a non-negative integer, as its digits.
RECURSIVE digits(_)
digits(n) ==
    IF n < 10 THEN <<DigitChars[n + 1]>>
    ELSE digits(n \div 10) \o <<DigitChars[(n % 10) + 1]>>

\* Zero padding to a width: f"{n:04d}", f"{n:02d}".
RECURSIVE zfill(_, _)
zfill(ds, width) == IF Len(ds) >= width THEN ds ELSE zfill(<<"0">> \o ds, width)

\* int(text) of a digit sequence.
RECURSIVE parse_int(_)
parse_int(ds) ==
    IF ds = <<>> THEN 0
    ELSE 10 * parse_int(SubSeq(ds, 1, Len(ds) - 1))
            + ((CHOOSE i \in DOMAIN DigitChars : DigitChars[i] = ds[Len(ds)]) - 1)

(***************************************************************************)
(* Cell values.  Socrata's JSON carries every scalar as a string and       *)
(* leaves a null field out of the row object.                              *)
(***************************************************************************)
Null == [k |-> "null", v |-> ""]
Str(s) == [k |-> "str", v |-> s]
Dt(s) == [k |-> "datetime", v |-> s]

\* Column names that occur in the model, as character sequences.
N_id == <<"i", "d">>
N_ts == <<"t", "s">>
N_Ts == <<"T", "s">>
N_t_s == <<"t", "-", "s">>
N_amt == <<"a", "m", "t">>
N_date_column == <<"d", "a", "t", "e", "_", "c", "o", "l", "u", "m", "n">>
N_when == <<"w", "h", "e", "n">>

\* The API's row with id i: a JSON object as an ordered list of (key, value).
\* Rows with an even id have a null ordering value, which Socrata omits.
RowOf(i) ==
    IF i % 2 = 1
    THEN << [k |-> N_id, v |-> Str(ToString(i))], [k |-> N_ts, v |-> Str("2021-01-01T00:00:00")] >>
    ELSE << [k |-> N_id, v |-> Str(ToString(i))] >>

(***************************************************************************)
(* SocrataResource (socrata_resource.py).                                  *)
(*                                                                         *)
(* An endpoint is <<resource, extension>>; a query is the params dict as a *)
(* record, an absent key being NoParam.  One sess.get followed by          *)
(* raise_for_status answers with a response: a raised ReadTimeout or       *)
(* ConnectionError, an HTTP error status (raise_for_status raises          *)
(* HTTPError), or HTTP 200 and a body.                                     *)
(* A .json body is the list of row objects; a .geojson body is the         *)
(* feature list, each feature with or without a "properties" object.       *)
(***************************************************************************)
NoParam == "-"

EP_JSON == <<"resource-a", ".json">>
EP_GEO == <<"resource-b", ".geojson">>
Endpoints == {EP_JSON, EP_GEO}

endswith(endpoint, ext) == endpoint[Len(endpoint)] = ext

Timeout == [st |-> "timeout", body |-> <<>>]
HttpError == [st |-> "http_error", body |-> <<>>]
Ok200(body) == [st |-> "200", body |-> body]

Feature(row) == [has_properties |-> TRUE, properties |-> row]
BareFeature == [has_properties |-> FALSE, properties |-> <<>>]

\* socrata_resource.py lines 79-84: the decoded payload of an HTTP 200 response.
Decode(endpoint, body) ==
    IF endswith(endpoint, ".geojson")
    THEN [i \in 1..Len(body) |->
            IF body[i].has_properties THEN body[i].properties ELSE <<>>]
    ELSE body

\* The params dict {"$limit", "$offset", "$order", "$where"}.
Query(limit, offset, order, where) ==
    [limit |-> limit, offset |-> offset, order |-> order, where |-> where]

NoCache == [full |-> FALSE, endpoint |-> <<>>, params |-> Query(0, 0, NoParam, NoParam),
            payload |-> <<>>]
CacheOf(endpoint, params, payload) ==
    [full |-> TRUE, endpoint |-> endpoint, params |-> params, payload |-> payload]

\* How the retry loop stands or ended: "waiting" (asleep before, or blocked
\* in, the next GET), "raise" with the exception's name, or "ok".
Waiting(gets, sleeps) ==
    [kind |-> "waiting", error |-> "none", payload |-> <<>>, gets |-> gets, sleeps |-> sleeps]
Raised(error, gets, sleeps) ==
    [kind |-> "raise", error |-> error, payload |-> <<>>, gets |-> gets, sleeps |-> sleeps]
Returned(payload, gets, sleeps) ==
    [kind |-> "ok", error |-> "none", payload |-> payload, gets |-> gets, sleeps |-> sleeps]

\* The transport's answer to the a-th GET alone.
OneAnswer(a, resp) == [i \in {a} |-> resp]

\* The seconds slept after each of the first n GETs of a call still running.
Sleeps(n) == [i \in 1..n |-> BACKOFF_FACTOR_S * Pow2(i - 1)]

\* socrata_resource.py lines 66-90: the retry loop, entered with read_attempt
\* GETs already made.  script[a] is the transport's answer to the a-th GET;
\* where the script has no answer yet the loop waits.  The result tells how
\* the loop stands, what it returned, how many GETs it issued and the
\* seconds it slept between them.  An HTTPError of raise_for_status is not
\* caught by the except clause of line 72.
RECURSIVE FetchLoopBadReadBudget(_, _, _, _)
FetchLoopBadReadBudget(endpoint, script, read_attempt, sleeps) ==
    LET a == read_attempt + 1
        nap == BACKOFF_FACTOR_S * Pow2(a - 1)
    IN  IF a \notin DOMAIN script
        THEN Waiting(read_attempt, sleeps)
        ELSE IF script[a].st = "http_error"
        THEN Raised("HTTPError", a, sleeps)
        ELSE IF script[a].st = "timeout"
        THEN IF a >= MAX_READ_RETRIES
             THEN Raised("ReadTimeout", a, sleeps)
             ELSE FetchLoopBadReadBudget(endpoint, script, a, Append(sleeps, nap))
        ELSE IF Decode(endpoint, script[a].body) # <<>> \/ a > MAX_EMPTY_RETRIES
             THEN Returned(Decode(endpoint, script[a].body), a, sleeps)
             ELSE FetchLoopBadReadBudget(endpoint, script, a, Append(sleeps, nap))

RECURSIVE FetchLoopBadEmptyBudget(_, _, _, _)
FetchLoopBadEmptyBudget(endpoint, script, read_attempt, sleeps) ==
    LET a == read_attempt + 1
        nap == BACKOFF_FACTOR_S * Pow2(a - 1)
    IN  IF a \notin DOMAIN script
        THEN Waiting(read_attempt, sleeps)
        ELSE IF script[a].st = "http_error"
        THEN Raised("HTTPError", a, sleeps)
        ELSE IF script[a].st = "timeout"
        THEN IF a > MAX_READ_RETRIES
             THEN Raised("ReadTimeout", a, sleeps)
             ELSE FetchLoopBadEmptyBudget(endpoint, script, a, Append(sleeps, nap))
        ELSE IF Decode(endpoint, script[a].body) # <<>>
             THEN Returned(Decode(endpoint, script[a].body), a, sleeps)
             ELSE IF a > MAX_EMPTY_RETRIES
                  THEN Raised("ReadTimeout", a, sleeps)
                  ELSE FetchLoopBadEmptyBudget(endpoint, script, a, Append(sleeps, nap))

RECURSIVE FetchLoop(_, _, _, _)
FetchLoop(endpoint, script, read_attempt, sleeps) ==
    LET a == read_attempt + 1
        nap == BACKOFF_FACTOR_S * Pow2(a - 1)
    IN  IF a \notin DOMAIN script
        THEN Waiting(read_attempt, sleeps)
        ELSE IF script[a].st = "http_error"
        THEN Raised("HTTPError", a, sleeps)
        ELSE IF script[a].st = "timeout"
        THEN IF a > MAX_READ_RETRIES
             THEN Raised("ReadTimeout", a, sleeps)
             ELSE FetchLoop(endpoint, script, a, Append(sleeps, nap))
        ELSE IF Decode(endpoint, script[a].body) # <<>> \/ a > MAX_EMPTY_RETRIES
             THEN Returned(Decode(endpoint, script[a].body), a, sleeps)
             ELSE FetchLoop(endpoint, script, a, Append(sleeps, nap))

\* socrata_resource.py lines 57-61: the cache test.
CacheHitEndpointOnly(c, endpoint, query_params) ==
    c.full /\ c.endpoint = endpoint

CacheHit(c, endpoint, query_params) ==
    c.full /\ c.endpoint = endpoint /\ c.params = query_params

\* The result of a call served from slot c.
Hit(c) ==
    [kind |-> "hit", error |-> "none", payload |-> c.payload, gets |-> 0, sleeps |-> <<>>,
     cache |-> c]

\* The result of a call whose loop stands at r: line 93 stores the payload
\* the loop left with.
Through(c, endpoint, query_params, r, stored) ==
    [kind |-> r.kind, error |-> r.error, payload |-> r.payload, gets |-> r.gets,
     sleeps |-> r.sleeps,
     cache |-> IF stored THEN CacheOf(endpoint, query_params, r.payload) ELSE c]

\* socrata_resource.py lines 46-94: one fetch_data call against cache slot
\* c, taken up after read_attempt GETs (0: from its entry, cache test
\* included) and followed as far as script answers.  The result carries the
\* slot after that.
fetch_data_skip_empty_store(c, endpoint, query_params, script, read_attempt, sleeps) ==
    IF read_attempt = 0 /\ CacheHit(c, endpoint, query_params)
    THEN Hit(c)
    ELSE With(FetchLoop(endpoint, script, read_attempt, sleeps),
              LAMBDA r : Through(c, endpoint, query_params, r,
                                 r.kind = "ok" /\ r.payload # <<>>))

fetch_data(c, endpoint, query_params, script, read_attempt, sleeps) ==
    IF read_attempt = 0 /\ CacheHit(c, endpoint, query_params)
    THEN Hit(c)
    ELSE With(FetchLoop(endpoint, script, read_attempt, sleeps),
              LAMBDA r : Through(c, endpoint, query_params, r, r.kind = "ok"))

\* No direct fetch_data call has been made yet.
NoCall ==
    [kind |-> "none", error |-> "none", endpoint |-> <<>>,
     params |-> Query(0, 0, NoParam, NoParam),
     used |-> <<>>, payload |-> <<>>, gets |-> 0, sleeps |-> <<>>,
     cacheBefore |-> NoCache, netBefore |-> NoCache]

\* No auto transform has been applied yet.
NoTransform ==
    [kind |-> "none", schema_cfg |-> <<>>, order |-> <<>>, custom |-> "none",
     final_field |-> <<>>, input |-> <<>>, out |-> <<>>]

\* A datetime: calendar date and hour of the day.
DT(y, m, d, h) == [y |-> y, m |-> m, d |-> d, h |-> h]
NoDate == DT(0, 0, 0, 0)

\* The schema config the tiers' assets are built with unless stated
\* otherwise: types declared through date_cols, no rename.
PlainCfg ==
    [rename_map |-> <<>>, dtype_overrides |-> <<>>, date_cols |-> <<N_ts>>, int_cols |-> <<>>]

\* The builder arguments of the asset under operation.
AssetOf(tier, granularity, start_date, end_date, schema_cfg) ==
    [tier |-> tier, partition_granularity |-> granularity,
     start_date |-> start_date, end_date |-> end_date, schema_cfg |-> schema_cfg]

NoAsset == AssetOf("none", "month", NoDate, NoDate, PlainCfg)
MediumAsset == AssetOf("medium", "month", NoDate, NoDate, PlainCfg)

\* No large raw run has started yet.
IdleLargeRun ==
    [pc |-> "idle", limit |-> 1, windows |-> <<>>, w |-> 0, offset |-> 0, batch |-> 0,
     chunks |-> 0, fetches |-> <<>>, writes |-> <<>>, result |-> -1, n |-> 0,
     attempt |-> 0]

\* No clean run has been made yet.
NoClean ==
    [kind |-> "none", lake |-> {}, found |-> {}, transforms |-> 0, merges |-> <<>>, writes |-> <<>>,
     result |-> "none", processed |-> 0]

\* No builder has been called yet.
NoBuild ==
    [kind |-> "none", error |-> "none", args |-> <<>>, steps |-> <<>>, ops |-> {}]

\* No path resolver call has been made.
NoPathCall == [kind |-> "none", owners |-> <<>>, calls |-> <<>>, out |-> <<>>]

\* No file at a database path.
NoFile == [exists |-> FALSE, complete |-> FALSE, objects |-> {}, registry |-> <<>>]

\* No warehouse build has been made and there is no warehouse file.
NoWarehouse ==
    [pc |-> "idle", lake |-> {}, cfg |-> <<>>, args |-> <<>>, selected |-> <<>>,
     skipped |-> <<>>, db |-> NoFile, tmp |-> NoFile, before |-> NoFile,
     result |-> "none", error |-> "none"]

(***************************************************************************)
(* Frames.  A frame is a sequence of columns, a column a name, a dtype and *)
(* its cells; pl.DataFrame(recs) makes one column per key, in the order    *)
(* the keys first appear, a missing key giving a null cell.                *)
(***************************************************************************)
Column(name, dtype, cells) == [name |-> name, dtype |-> dtype, cells |-> cells]

height(df) == IF df = <<>> THEN 0 ELSE Len(df[1].cells)

names(df) == [j \in 1..Len(df) |-> df[j].name]

null_count(col) == Cardinality({i \in DOMAIN col.cells : col.cells[i] = Null})

RECURSIVE AddKeys(_, _)
AddKeys(acc, row) ==
    IF row = <<>> THEN acc
    ELSE AddKeys(IF Head(row).k \in Range(acc) THEN acc ELSE Append(acc, Head(row).k),
                 Tail(row))

RECURSIVE AllKeys(_, _)
AllKeys(acc, recs) ==
    IF recs = <<>> THEN acc ELSE AllKeys(AddKeys(acc, Head(recs)), Tail(recs))

\* dict.get(key): the value under key, None when the key is absent.
Get(row, key) ==
    IF \E i \in DOMAIN row : row[i].k = key
    THEN row[CHOOSE i \in DOMAIN row : row[i].k = key].v
    ELSE Null

\* asset_factories.py line 265: pl.DataFrame(recs).
DataFrame(recs) ==
    LET keys == AllKeys(<<>>, recs)
    IN  [j \in 1..Len(keys) |->
            LET cells == [i \in 1..Len(recs) |-> Get(recs[i], keys[j])]
            IN  Column(keys[j],
                       IF \A i \in DOMAIN cells : cells[i] = Null THEN "null" ELSE "str",
                       cells)]

(***************************************************************************)
(* PolarsParquetIOManager (polars_parquet_io_manager.py).  A path is the   *)
(* sequence of the tokens the code joins.                                  *)
(***************************************************************************)
RAW_LAKE_PATH == <<"raw">>

\* polars_parquet_io_manager.py lines 44-48.
RECURSIVE drop_all_null_columns(_)
drop_all_null_columns(df) ==
    IF df = <<>> THEN <<>>
    ELSE (IF null_count(Head(df)) < Len(Head(df).cells) THEN <<Head(df)>> ELSE <<>>)
         \o drop_all_null_columns(Tail(df))

\* polars_parquet_io_manager.py lines 62-64: _path in flat_chunk mode.
FlatChunkPath(base_dir, asset, batch) ==
    base_dir \o <<"/">> \o asset \o <<"/">> \o asset \o <<"_">> \o digits(batch) \o <<".parquet">>

\* polars_parquet_io_manager.py lines 78-96: write_chunk in flat_chunk mode;
\* the file at the path is created or overwritten.
write_chunk(files, base_dir, asset_name, batch_num, df) ==
    LET path == FlatChunkPath(base_dir, asset_name, batch_num)
    IN  {f \in files : f.path # path}
            \cup {[path |-> path, frame |-> drop_all_null_columns(df)]}

(***************************************************************************)
(* build_medium_socrata_asset (asset_factories.py lines 220-297): the raw  *)
(* operation of one medium asset.                                          *)
(***************************************************************************)
asset_name == <<"m">>
raw_key == asset_name \o <<"_raw">>
order_field == "ts ASC"

\* The ordered sources the API can hold: increasing sequences of row ids.
RECURSIVE SortedSeq(_)
SortedSeq(S) ==
    IF S = {} THEN <<>>
    ELSE LET m == CHOOSE x \in S : \A y \in S : x <= y
         IN  <<m>> \o SortedSeq(S \ {m})

Sources == {SortedSeq(S) : S \in SUBSET (1..MaxRow)}

\* The API's answer to $limit/$offset over the ordered source.
Page(src, query) ==
    LET lo == query.offset + 1
        hi == Min(query.offset + query.limit, Len(src))
    IN  [i \in 1..(IF hi >= lo THEN hi - lo + 1 ELSE 0) |-> RowOf(src[lo + i - 1])]

\* What one GET for a page of the dataset can answer: a transport error, an
\* HTTP error status, the page as the dataset stands at that moment, or
\* HTTP 200 with an empty body although the page holds rows (the transient
\* answer socrata_resource.py lines 86-90 retry).
Answers(page) == {Timeout, HttpError, Ok200(page), Ok200(<<>>)}

IdleRun(limit) ==
    [pc |-> "idle", limit |-> limit, offset |-> 0, batch |-> 0, total |-> 0,
     fetches |-> <<>>, writes |-> <<>>, src0 |-> <<>>, changed |-> FALSE,
     result |-> -1, n |-> 0, changes |-> 0, attempt |-> 0]

\* A raw run is under way: "paging" at or inside a fetch_data call (attempt
\* GETs made by the call in flight), "writing" between the return of
\* fetch_data and the return of write_chunk, "returned" between the return
\* of the single raw_asset and the io manager's handle_output.
Active(st) == st.pc \in {"paging", "writing", "returned"}

\* asset_factories.py lines 255-256: a raw run begins.
RawStart ==
    /\ job.tier = "medium"
    /\ ~Active(run)
    /\ run.n < MaxRuns
    /\ run' = [run EXCEPT !.pc = "paging", !.offset = 0, !.batch = 0, !.total = 0,
                          !.fetches = <<>>, !.writes = <<>>, !.src0 = source,
                          !.changed = FALSE, !.result = -1, !.n = run.n + 1,
                          !.attempt = 0]
    /\ clean' = NoClean
    /\ UNCHANGED <<cache, call, netlast, source, disk, xf, job, lrun, build, pcall, wh>>

\* asset_factories.py lines 257-264 with the exception of fetch_data caught
\* and taken for an empty page.
RawFetchedSwallow(st, r) ==
    LET fetched == Append(st.fetches,
                          [offset |-> st.offset, kind |-> r.kind, recs |-> r.payload])
    IN  IF r.kind = "raise" \/ r.payload = <<>>
        THEN [st EXCEPT !.pc = "done", !.fetches = fetched, !.result = st.total,
                        !.attempt = 0]
        ELSE [st EXCEPT !.pc = "writing", !.fetches = fetched, !.attempt = 0]

\* asset_factories.py lines 262-264 and 270: fetch_data ended as r.  An
\* exception leaves raw_asset, an empty result leaves the loop and the run
\* returns its total, rows go on to the write.  run.fetches logs the calls.
RawFetched(st, r) ==
    LET fetched == Append(st.fetches,
                          [offset |-> st.offset, kind |-> r.kind, recs |-> r.payload])
    IN  IF r.kind = "raise"
        THEN [st EXCEPT !.pc = "failed", !.fetches = fetched, !.attempt = 0]
        ELSE IF r.payload = <<>>
        THEN [st EXCEPT !.pc = "done", !.fetches = fetched, !.result = st.total,
                        !.attempt = 0]
        ELSE [st EXCEPT !.pc = "writing", !.fetches = fetched, !.attempt = 0]

\* asset_factories.py lines 265-269 with the offset advanced by one.
RawWrittenOffsetByOne(st, files) ==
    LET df == DataFrame(st.fetches[Len(st.fetches)].recs)
        batch == st.batch + 1
    IN  [run |-> [st EXCEPT !.pc = "paging",
                            !.batch = batch,
                            !.total = st.total + height(df),
                            !.offset = st.offset + 1,
                            !.writes = Append(st.writes,
                                [batch |-> batch, fetch |-> Len(st.fetches),
                                 path |-> FlatChunkPath(RAW_LAKE_PATH, raw_key, batch),
                                 frame |-> drop_all_null_columns(df)])],
         disk |-> write_chunk(files, RAW_LAKE_PATH, raw_key, batch, df)]

\* asset_factories.py lines 265-269: the rows of the last fetch become a
\* frame, written as the next chunk; the offset advances by the limit.
\* run.writes logs the chunks.
RawWritten(st, files) ==
    LET df == DataFrame(st.fetches[Len(st.fetches)].recs)
        batch == st.batch + 1
    IN  [run |-> [st EXCEPT !.pc = "paging",
                            !.batch = batch,
                            !.total = st.total + height(df),
                            !.offset = st.offset + st.limit,
                            !.writes = Append(st.writes,
                                [batch |-> batch, fetch |-> Len(st.fetches),
                                 path |-> FlatChunkPath(RAW_LAKE_PATH, raw_key, batch),
                                 frame |-> drop_all_null_columns(df)])],
         disk |-> write_chunk(files, RAW_LAKE_PATH, raw_key, batch, df)]

\* asset_factories.py lines 257-264 and socrata_resource.py lines 57-93: the
\* turn's fetch_data call up to its next wait.  With no GET made yet the
\* call is entered (query built, cache tested); then one GET is answered by
\* resp and the call either ends or sleeps before its next GET.
RawFetch(resp) ==
    /\ job.tier = "medium"
    /\ run.pc = "paging"
    /\ \E query \in {Query(run.limit, run.offset, order_field, NoParam)} :
       \E r \in {fetch_data(cache, EP_JSON, query, OneAnswer(run.attempt + 1, resp),
                             run.attempt, Sleeps(run.attempt))} :
            /\ cache' = r.cache
            /\ netlast' = IF r.kind = "ok" THEN CacheOf(EP_JSON, query, r.payload) ELSE netlast
            /\ run' = IF r.kind = "waiting"
                      THEN [run EXCEPT !.attempt = r.gets]
                      ELSE RawFetched(run, r)
    /\ UNCHANGED <<call, source, disk, xf, job, lrun, clean, build, pcall, wh>>

\* asset_factories.py lines 265-269: the write of the turn.
RawWrite ==
    /\ job.tier = "medium"
    /\ run.pc = "writing"
    /\ \E nxt \in {RawWritten(run, disk)} :
            /\ run' = nxt.run
            /\ disk' = nxt.disk
    /\ UNCHANGED <<cache, call, netlast, source, xf, job, lrun, clean, build, pcall, wh>>

\* The dataset changes on the portal (rows published or withdrawn), also
\* while a fetch_data call sleeps between two GETs.
SourceChange(src) ==
    /\ src # source
    /\ run.changes < MaxChanges
    /\ source' = src
    /\ run' = [run EXCEPT !.changed = (run.changed \/ Active(run)),
                          !.changes = run.changes + 1]
    /\ UNCHANGED <<cache, call, netlast, disk, xf, job, lrun, clean, build, pcall, wh>>

InitMedium ==
    /\ cache = NoCache
    /\ call = NoCall
    /\ netlast = NoCache
    /\ source \in Sources
    /\ disk = {}
    /\ run \in {IdleRun(limit) : limit \in 1..MaxLimit}
    /\ xf = NoTransform
    /\ job = MediumAsset
    /\ lrun = IdleLargeRun
    /\ clean = NoClean
    /\ build = NoBuild
    /\ pcall = NoPathCall
    /\ wh = NoWarehouse

NextMedium ==
    \/ RawStart
    \/ \E resp \in Answers(Page(source, Query(run.limit, run.offset, order_field, NoParam))) :
            RawFetch(resp)
    \/ RawWrite
    \/ \E src \in Sources : SourceChange(src)

SpecMedium == InitMedium /\ [][NextMedium]_vars

(***************************************************************************)
(* Direct fetch_data calls against a scripted transport.                   *)
(***************************************************************************)
\* What one sess.get can answer for an endpoint.
Bodies(endpoint) ==
    IF endswith(endpoint, ".geojson")
    THEN {<<>>, <<Feature(RowOf(1)), BareFeature>>}
    ELSE {<<>>, <<RowOf(1), RowOf(2)>>}

Responses(endpoint) == {Timeout, HttpError} \cup {Ok200(b) : b \in Bodies(endpoint)}

FetchQueries == {Query(1, o, "ts ASC", NoParam) : o \in 0..1}

\* socrata_resource.py lines 46-94, from the entry of a call to its first
\* wait: the cache test and, on a miss, the first GET, answered by resp.
\* call.used holds the answers the call consumed.
FetchCall(endpoint, query_params, resp) ==
    /\ call.kind # "waiting"
    /\ \E r \in {fetch_data(cache, endpoint, query_params, OneAnswer(1, resp), 0, <<>>)} :
            /\ cache' = r.cache
            /\ call' = [kind |-> r.kind, error |-> r.error, endpoint |-> endpoint,
                        params |-> query_params,
                        used |-> IF r.kind = "hit" THEN <<>> ELSE <<resp>>,
                        payload |-> r.payload, gets |-> r.gets, sleeps |-> r.sleeps,
                        cacheBefore |-> cache, netBefore |-> netlast]
            /\ netlast' = IF r.kind = "ok"
                          THEN CacheOf(endpoint, query_params, r.payload)
                          ELSE netlast
    /\ UNCHANGED <<source, disk, run, xf, job, lrun, clean, build, pcall, wh>>

\* socrata_resource.py lines 66-93 after a sleep (line 75 or 89): the next
\* GET of the call in flight, answered by resp.
FetchRetry(resp) ==
    /\ call.kind = "waiting"
    /\ \E r \in {fetch_data(cache, call.endpoint, call.params,
                             OneAnswer(call.gets + 1, resp), call.gets, call.sleeps)} :
            /\ cache' = r.cache
            /\ call' = [call EXCEPT !.kind = r.kind, !.error = r.error,
                                    !.used = Append(call.used, resp),
                                    !.payload = r.payload, !.gets = r.gets,
                                    !.sleeps = r.sleeps]
            /\ netlast' = IF r.kind = "ok"
                          THEN CacheOf(call.endpoint, call.params, r.payload)
                          ELSE netlast
    /\ UNCHANGED <<source, disk, run, xf, job, lrun, clean, build, pcall, wh>>

InitFetch ==
    /\ cache = NoCache
    /\ call = NoCall
    /\ netlast = NoCache
    /\ source = <<>>
    /\ disk = {}
    /\ run = IdleRun(1)
    /\ xf = NoTransform
    /\ job = NoAsset
    /\ lrun = IdleLargeRun
    /\ clean = NoClean
    /\ build = NoBuild
    /\ pcall = NoPathCall
    /\ wh = NoWarehouse

NextFetch ==
    \/ \E endpoint \in Endpoints :
            \E query_params \in FetchQueries :
                \E resp \in Responses(endpoint) :
                    FetchCall(endpoint, query_params, resp)
    \/ \E resp \in (IF call.kind = "waiting" THEN Responses(call.endpoint) ELSE {}) :
            FetchRetry(resp)

SpecFetch == InitFetch /\ [][NextFetch]_vars

(***************************************************************************)
(* Schema transform engine (polars_helpers.py, asset_factories.py 59-122). *)
(* A LazyFrame is a frame; an operation that polars rejects gives          *)
(* [ok |-> FALSE].  A dict is a sequence of [k, v] pairs.                  *)
(***************************************************************************)
UPPER == <<"A", "B", "C", "D", "E", "F", "G", "H", "I", "J", "K", "L", "M",
           "N", "O", "P", "Q", "R", "S", "T", "U", "V", "W", "X", "Y", "Z">>
LOWER == <<"a", "b", "c", "d", "e", "f", "g", "h", "i", "j", "k", "l", "m",
           "n", "o", "p", "q", "r", "s", "t", "u", "v", "w", "x", "y", "z">>
DIGITS == {"0", "1", "2", "3", "4", "5", "6", "7", "8", "9"}
WHITESPACE == {" "}
\* The characters ` and " (one token each).
BACKTICK == "<backtick>"
DQUOTE == "<dquote>"

\* str.lower() of one character.
lower(c) ==
    IF \E i \in DOMAIN UPPER : UPPER[i] = c
    THEN LOWER[CHOOSE i \in DOMAIN UPPER : UPPER[i] = c]
    ELSE c

\* polars_helpers.py line 24: the snake_case form of one column name.
RECURSIVE snake_name(_)
snake_name(name) ==
    IF name = <<>> THEN <<>>
    ELSE LET l == lower(Head(name))
             c == IF l \in {" ", "-"} THEN "_" ELSE l
         IN  (IF c \in Range(LOWER) \cup DIGITS \cup {"_"} THEN <<c>> ELSE <<>>)
             \o snake_name(Tail(name))

Failed == [ok |-> FALSE, lf |-> <<>>]
Done(lf) == [ok |-> TRUE, lf |-> lf]

Distinct(s) == \A i, j \in DOMAIN s : (s[i] = s[j]) => (i = j)

\* LazyFrame.rename: every column takes its new name; polars rejects a
\* result with two columns of one name.
Renamed(lf, new_names) ==
    IF Distinct(new_names)
    THEN Done([j \in 1..Len(lf) |-> [lf[j] EXCEPT !.name = new_names[j]]])
    ELSE Failed

\* polars_helpers.py lines 16-27.
to_snake_case(lf) == Renamed(lf, [j \in 1..Len(lf) |-> snake_name(lf[j].name)])

HasKey(d, key) == \E i \in DOMAIN d : d[i].k = key

\* dict.get(key, default).
DictGet(d, key, default) ==
    IF HasKey(d, key) THEN d[CHOOSE i \in DOMAIN d : d[i].k = key].v ELSE default

\* polars_helpers.py lines 55-57: lf.rename(rename_map); polars rejects a
\* mapping that names a column the frame does not have.
apply_rename_map(lf, rename_map) ==
    IF rename_map = <<>> THEN Done(lf)
    ELSE IF \E i \in DOMAIN rename_map : rename_map[i].k \notin Range(names(lf))
    THEN Failed
    ELSE Renamed(lf, [j \in 1..Len(lf) |-> DictGet(rename_map, lf[j].name, lf[j].name)])

\* Timestamps polars can parse from a string.
ParsableDates == {"2021-01-01T00:00:00", "2021-02-01T00:00:00"}

\* Expr.cast(dtype, strict=False) of one cell: a value that cannot be
\* converted becomes null.
cast_cell(v, dtype) ==
    IF v = Null THEN Null
    ELSE IF dtype = "datetime"
    THEN IF v.k = "datetime" THEN v
         ELSE IF v.k = "str" /\ v.v \in ParsableDates THEN Dt(v.v) ELSE Null
    ELSE IF dtype = "str" THEN Str(v.v)
    ELSE Null

cast_column(col, dtype) ==
    Column(col.name, dtype, [i \in DOMAIN col.cells |-> cast_cell(col.cells[i], dtype)])

\* LazyFrame.with_columns(expr.alias(name)): replaces the column of that
\* name in place, or appends a new one.
with_column(lf, col) ==
    IF col.name \in Range(names(lf))
    THEN [j \in 1..Len(lf) |-> IF lf[j].name = col.name THEN col ELSE lf[j]]
    ELSE Append(lf, col)

pick(lf, name) == lf[CHOOSE j \in DOMAIN lf : lf[j].name = name]

\* The cells of a literal broadcast over lf (one row over a frame with no column).
lit_cells(lf, v) == [i \in 1..(IF lf = <<>> THEN 1 ELSE height(lf)) |-> v]

\* polars_helpers.py lines 60-63: the dtype_overrides loop from entry i on.
RECURSIVE apply_dtype_overrides(_, _, _)
apply_dtype_overrides(lf, dtype_overrides, i) ==
    IF i > Len(dtype_overrides) THEN lf
    ELSE LET col == dtype_overrides[i].k
             dtype == dtype_overrides[i].v
         IN  apply_dtype_overrides(
                 IF col \in Range(names(lf))
                 THEN with_column(lf, cast_column(pick(lf, col), dtype))
                 ELSE lf,
                 dtype_overrides, i + 1)

RECURSIVE without(_, _)
without(lf, name) ==
    IF lf = <<>> THEN <<>>
    ELSE (IF Head(lf).name = name THEN <<>> ELSE <<Head(lf)>>) \o without(Tail(lf), name)

\* The custom enrichment hooks the model draws from:
\*   "none"   no custom_fn
\*   "add"    with_columns(lit("x").alias("amt"))
\*   "drop"   drop("ts")
\*   "stamp"  with_columns(lit("x").alias("date_column"))
\*   "parse"  with_columns(col("ts").cast(Datetime, strict=False))
CustomKinds == {"none", "add", "drop", "stamp", "parse"}

custom_fn(kind, lf) ==
    CASE kind = "add" -> Done(with_column(lf, Column(N_amt, "str", lit_cells(lf, Str("x")))))
      [] kind = "drop" -> Done(without(lf, N_ts))
      [] kind = "stamp" ->
            Done(with_column(lf, Column(N_date_column, "str", lit_cells(lf, Str("x")))))
      [] kind = "parse" ->
            IF N_ts \in Range(names(lf))
            THEN Done(with_column(lf, cast_column(pick(lf, N_ts), "datetime")))
            ELSE Failed
      [] OTHER -> Done(lf)

\* polars_helpers.py lines 32-69.
generic_transform(df, schema_cfg, custom) ==
    LET snaked == to_snake_case(df)
    IN  IF ~snaked.ok THEN Failed
        ELSE LET renamed == apply_rename_map(snaked.lf, schema_cfg.rename_map)
             IN  IF ~renamed.ok THEN Failed
                 ELSE LET typed == apply_dtype_overrides(renamed.lf,
                                                         schema_cfg.dtype_overrides, 1)
                      IN  IF custom = "none" THEN Done(typed) ELSE custom_fn(custom, typed)

\* str.strip(chars) on a character sequence.
RECURSIVE lstrip(_, _)
lstrip(s, chars) ==
    IF s # <<>> /\ Head(s) \in chars THEN lstrip(Tail(s), chars) ELSE s

RECURSIVE rstrip(_, _)
rstrip(s, chars) ==
    IF s # <<>> /\ s[Len(s)] \in chars THEN rstrip(SubSeq(s, 1, Len(s) - 1), chars) ELSE s

strip(s, chars) == rstrip(lstrip(s, chars), chars)

\* str.split()[0] of a string that starts with a non-blank character.
RECURSIVE first_word(_)
first_word(s) ==
    IF s = <<>> \/ Head(s) \in WHITESPACE THEN <<>>
    ELSE <<Head(s)>> \o first_word(Tail(s))

\* asset_factories.py lines 59-68; <<>>.split()[0] raises IndexError.
extract_order_token(order) ==
    LET stripped == strip(order, WHITESPACE)
    IN  IF stripped = <<>> THEN [ok |-> FALSE, token |-> <<>>]
        ELSE [ok |-> TRUE, token |-> strip(first_word(stripped), {BACKTICK, DQUOTE})]

\* asset_factories.py lines 86-98: what _auto_transform fixes when it is
\* built: the ordering field's destination name and the amended config.
auto_transform(schema_cfg, order) ==
    LET tok == extract_order_token(order)
        raw_token == tok.token
        token_snake == snake_name(raw_token)
        final_field == DictGet(schema_cfg.rename_map, token_snake, token_snake)
        date_cols == schema_cfg.date_cols
        date_cols2 ==
            IF raw_token \in Range(date_cols)
            THEN [i \in DOMAIN date_cols |->
                    IF date_cols[i] = raw_token THEN final_field ELSE date_cols[i]]
            ELSE IF final_field \notin Range(date_cols)
            THEN Append(date_cols, final_field)
            ELSE date_cols
    IN  [ok |-> tok.ok, final_field |-> final_field,
         cfg |-> [schema_cfg EXCEPT !.date_cols = date_cols2]]

\* asset_factories.py lines 110-118: date_column is added as a copy of
\* final_field, or an existing date_column is moved to the front.
promote_date_column_append(lf2, final_field) ==
    LET cols == names(lf2)
    IN  IF final_field \in Range(cols)
        THEN IF N_date_column \notin Range(cols)
             THEN Append(lf2, [pick(lf2, final_field) EXCEPT !.name = N_date_column])
             ELSE <<pick(lf2, N_date_column)>> \o without(lf2, N_date_column)
        ELSE lf2

promote_date_column(lf2, final_field) ==
    LET cols == names(lf2)
    IN  IF final_field \in Range(cols)
        THEN IF N_date_column \notin Range(cols)
             THEN <<[pick(lf2, final_field) EXCEPT !.name = N_date_column]>> \o lf2
             ELSE <<pick(lf2, N_date_column)>> \o without(lf2, N_date_column)
        ELSE lf2

\* asset_factories.py lines 100-120: _wrapped, the transform _auto_transform
\* returns, applied to lf.
wrapped(built, custom, lf) ==
    LET g == generic_transform(lf, built.cfg, custom)
    IN  IF ~g.ok THEN Failed
        ELSE LET lf2 == IF built.final_field \notin Range(names(g.lf))
                        THEN with_column(g.lf, Column(built.final_field, "datetime",
                                                      lit_cells(g.lf, Null)))
                        ELSE g.lf
             IN  Done(promote_date_column(lf2, built.final_field))

(***************************************************************************)
(* Applications of the auto transform to input batches.                    *)
(***************************************************************************)
\* Columns per input batch.
MaxCols == 2

\* Columns an input batch can carry (two rows each).
ColumnPool ==
    { Column(N_ts, "str", <<Str("2021-01-01T00:00:00"), Str("n/a")>>),
      Column(N_ts, "datetime", <<Dt("2021-02-01T00:00:00"), Null>>),
      Column(N_Ts, "str", <<Str("2021-02-01T00:00:00"), Str("2021-01-01T00:00:00")>>),
      Column(N_t_s, "null", <<Null, Null>>),
      Column(N_id, "str", <<Str("1"), Str("2")>>),
      Column(N_date_column, "str", <<Str("old"), Str("old")>>) }

Batches ==
    UNION {[1..n -> ColumnPool] : n \in 0..MaxCols}

OrderFields ==
    { <<"t", "s", " ", "A", "S", "C">>,
      <<" ", BACKTICK, "T", "s", BACKTICK, " ", "D", "E", "S", "C">>,
      <<"t", "-", "s">>,
      <<" ">> }

SchemaCfgs ==
    [rename_map : {<<>>, <<[k |-> N_ts, v |-> N_when]>>},
     dtype_overrides : {<<>>, <<[k |-> N_ts, v |-> "datetime"]>>},
     date_cols : {<<>>, <<N_ts>>},
     int_cols : {<<>>, <<N_id>>}]

\* A batch and a configuration handed to the auto transform, not yet applied.
Pending(schema_cfg, custom, order, lf) ==
    [kind |-> "pending", schema_cfg |-> schema_cfg, order |-> order, custom |-> custom,
     final_field |-> <<>>, input |-> lf, out |-> <<>>]

\* _auto_transform(schema_cfg, custom_fn, order_field) is built and the
\* transform it returns is applied to the pending batch.
Transform ==
    /\ xf.kind = "pending"
    /\ LET built == auto_transform(xf.schema_cfg, xf.order)
           res == IF built.ok THEN wrapped(built, xf.custom, xf.input) ELSE Failed
       IN  xf' = [xf EXCEPT !.kind = IF ~built.ok THEN "build_error"
                                     ELSE IF res.ok THEN "ok" ELSE "error",
                            !.final_field = built.final_field,
                            !.out = res.lf]
    /\ UNCHANGED <<cache, call, netlast, source, disk, run, job, lrun, clean, build, pcall, wh>>

\* The transform built from the same arguments is applied to the output of
\* a first pass that succeeded; the first output is kept as the input.
TransformAgain ==
    /\ xf.kind = "ok"
    /\ LET built == auto_transform(xf.schema_cfg, xf.order)
           res == wrapped(built, xf.custom, xf.out)
       IN  xf' = [xf EXCEPT !.kind = IF res.ok THEN "again_ok" ELSE "again_error",
                            !.input = xf.out,
                            !.out = res.lf]
    /\ UNCHANGED <<cache, call, netlast, source, disk, run, job, lrun, clean, build, pcall, wh>>

InitTransform ==
    /\ cache = NoCache
    /\ call = NoCall
    /\ netlast = NoCache
    /\ source = <<>>
    /\ disk = {}
    /\ run = IdleRun(1)
    /\ xf \in {Pending(schema_cfg, custom, order, lf) :
                    schema_cfg \in SchemaCfgs, custom \in CustomKinds,
                    order \in OrderFields, lf \in {b \in Batches : Distinct(names(b))}}
    /\ job = NoAsset
    /\ lrun = IdleLargeRun
    /\ clean = NoClean
    /\ build = NoBuild
    /\ pcall = NoPathCall
    /\ wh = NoWarehouse

NextTransform == Transform

SpecTransform == InitTransform /\ [][NextTransform]_vars

NextRetransform == Transform \/ TransformAgain

SpecRetransform == InitTransform /\ [][NextRetransform]_vars

(***************************************************************************)
(* Calendar arithmetic on datetimes (datetime.replace, + timedelta, <).    *)
(***************************************************************************)
Leap(y) == (y % 4 = 0 /\ y % 100 # 0) \/ (y % 400 = 0)

DaysIn(y, m) ==
    IF m = 2 THEN (IF Leap(y) THEN 29 ELSE 28)
    ELSE IF m \in {4, 6, 9, 11} THEN 30 ELSE 31

\* t + timedelta(days=1).
NextDay(t) ==
    IF t.d < DaysIn(t.y, t.m) THEN [t EXCEPT !.d = t.d + 1]
    ELSE IF t.m < 12 THEN [t EXCEPT !.m = t.m + 1, !.d = 1]
    ELSE [t EXCEPT !.y = t.y + 1, !.m = 1, !.d = 1]

\* t + timedelta(days=n).
RECURSIVE add_days(_, _)
add_days(t, n) == IF n <= 0 THEN t ELSE add_days(NextDay(t), n - 1)

\* t.replace(day=1).
replace_day1(t) == [t EXCEPT !.d = 1]

\* a < b on datetimes.
Before(a, b) ==
    \/ a.y < b.y
    \/ a.y = b.y /\ a.m < b.m
    \/ a.y = b.y /\ a.m = b.m /\ a.d < b.d
    \/ a.y = b.y /\ a.m = b.m /\ a.d = b.d /\ a.h < b.h

\* asset_factories.py lines 339-342: the while loop of _monthly_windows.
RECURSIVE WindowsFrom(_, _)
WindowsFrom(cur, end_date) ==
    IF Before(cur, end_date)
    THEN LET nxt == replace_day1(add_days(cur, 32))
         IN  <<[win_start |-> cur, win_end |-> nxt]>> \o WindowsFrom(nxt, end_date)
    ELSE <<>>

\* asset_factories.py lines 336-343.
monthly_windows(start_date, end_date) == WindowsFrom(replace_day1(start_date), end_date)

\* format(t, "%Y-%m-%dT00:00:00"): the date of t at a literal midnight.
strftime_midnight(t) == DT(t.y, t.m, t.d, 0)

\* asset_factories.py lines 361-364: the $where text of a window, as the
\* column it bounds and the two timestamps it names.
WhereOf(raw_token, win) ==
    [token |-> raw_token, lo |-> strftime_midnight(win.win_start),
     hi |-> strftime_midnight(win.win_end)]

(***************************************************************************)
(* hive_chunk and single paths (polars_parquet_io_manager.py lines 59-75). *)
(***************************************************************************)
\* month=None.
NoMonth == -1

CLEAN_LAKE_PATH == <<"clean">>

\* polars_parquet_io_manager.py lines 66-75: _path in hive_chunk mode.
HiveChunkPath(base_dir, asset, batch, year, month) ==
    LET y4 == zfill(digits(year), 4)
        m2 == IF month # NoMonth THEN zfill(digits(month), 2) ELSE <<>>
    IN  base_dir \o <<"/">> \o asset \o <<"/", "year=">> \o y4
            \o (IF month # NoMonth THEN <<"/", "month=">> \o m2 ELSE <<>>)
            \o <<"/">> \o asset \o <<"_">> \o y4 \o m2 \o <<"_">> \o digits(batch)
            \o <<".parquet">>

\* polars_parquet_io_manager.py lines 78-96: write_chunk in hive_chunk mode.
write_chunk_hive(files, base_dir, asset, batch_num, df, year, month) ==
    LET path == HiveChunkPath(base_dir, asset, batch_num, year, month)
    IN  {f \in files : f.path # path}
            \cup {[path |-> path, frame |-> drop_all_null_columns(df)]}

\* polars_parquet_io_manager.py lines 59-60: _path in single mode.
SinglePath(base_dir, asset) ==
    base_dir \o <<"/">> \o asset \o <<"/">> \o asset \o <<".parquet">>

\* polars_parquet_io_manager.py lines 99-122: write_single.  A DataFrame
\* loses its all-null columns; a LazyFrame is streamed as it is.
write_single(files, base_dir, asset, obj, lazy) ==
    LET path == SinglePath(base_dir, asset)
    IN  {f \in files : f.path # path}
            \cup {[path |-> path,
                   frame |-> IF lazy THEN obj ELSE drop_all_null_columns(obj)]}

(***************************************************************************)
(* The three tiers of one pipeline (asset_factories.py lines 145-453):     *)
(* a single asset "s", the medium asset "m" and a large asset "l", each    *)
(* built with order_field "ts ASC" and a schema config.                    *)
(***************************************************************************)
single_name == <<"s">>
large_name == <<"l">>

\* f"{asset_name}_raw".
RawKey(name) == name \o <<"_raw">>

\* order_field as the characters _extract_order_token takes apart.
order_chars == <<"t", "s", " ", "A", "S", "C">>

\* An absent "$offset" key.
NoOffset == -1

\* Row ids of the large asset's dataset are 1..MaxLargeRow.
MaxLargeRow == 4

\* The ordering timestamp of the large dataset's row i, and its JSON text.
LargeRowAt(i) ==
    CASE i = 1 -> DT(2020, 12, 20, 0)
      [] i = 2 -> DT(2021, 1, 5, 8)
      [] i = 3 -> DT(2021, 1, 25, 0)
      [] OTHER -> DT(2021, 2, 10, 0)

LargeRowTs(i) ==
    CASE i = 1 -> "2020-12-20T00:00:00"
      [] i = 2 -> "2021-01-05T08:00:00"
      [] i = 3 -> "2021-01-25T00:00:00"
      [] OTHER -> "2021-02-10T00:00:00"

\* The JSON object of row i; row 3 carries one more field.
LargeRowOf(i) ==
    << [k |-> N_id, v |-> Str(ToString(i))], [k |-> N_ts, v |-> Str(LargeRowTs(i))] >>
        \o (IF i = 3 THEN << [k |-> N_amt, v |-> Str("7")] >> ELSE <<>>)

\* The datasets the large asset's endpoint can hold: the first n rows.
LargeSources == {SortedSeq(1..n) : n \in 0..MaxLargeRow}

\* The ids of src the $where bound lets through, in order.
RECURSIVE Within(_, _)
Within(src, where) ==
    IF src = <<>> THEN <<>>
    ELSE (IF ~Before(LargeRowAt(Head(src)), where.lo) /\ Before(LargeRowAt(Head(src)), where.hi)
          THEN <<Head(src)>> ELSE <<>>)
         \o Within(Tail(src), where)

\* The API's answer to $where/$limit/$offset over the ordered source.
LargePage(src, query) ==
    LET sel == Within(src, query.where)
        lo == query.offset + 1
        hi == Min(query.offset + query.limit, Len(sel))
    IN  [i \in 1..(IF hi >= lo THEN hi - lo + 1 ELSE 0) |-> LargeRowOf(sel[lo + i - 1])]

\* The API's answer to $limit alone.
SinglePage(src, query) ==
    [i \in 1..Min(query.limit, Len(src)) |-> RowOf(src[i])]

\* The datasets the asset's endpoint can hold.
SourcesOf(tier) == IF tier = "large" THEN LargeSources ELSE Sources

\* asset_factories.py lines 174-178: a run of the single raw_asset begins.
SingleRawStart ==
    /\ job.tier = "single"
    /\ ~Active(run)
    /\ run.n < MaxRuns
    /\ run' = [run EXCEPT !.pc = "paging", !.total = 0, !.fetches = <<>>, !.writes = <<>>,
                          !.src0 = source, !.changed = FALSE, !.result = -1,
                          !.n = run.n + 1, !.attempt = 0]
    /\ clean' = IF clean.kind = "returned" THEN clean ELSE NoClean
    /\ UNCHANGED <<cache, call, netlast, source, disk, xf, job, lrun, build, pcall, wh>>

\* asset_factories.py lines 180-185: fetch_data ended as r.  An exception
\* leaves raw_asset; otherwise the frame is built, its height reported and
\* the frame returned to the framework.
SingleFetched(st, r) ==
    LET fetched == <<[offset |-> NoOffset, kind |-> r.kind, recs |-> r.payload]>>
    IN  IF r.kind = "raise"
        THEN [st EXCEPT !.pc = "failed", !.fetches = fetched, !.attempt = 0]
        ELSE [st EXCEPT !.pc = "returned", !.fetches = fetched, !.attempt = 0,
                        !.total = height(DataFrame(r.payload)),
                        !.result = height(DataFrame(r.payload))]

\* polars_parquet_io_manager.py lines 126-130 (handle_output of the
\* raw_single_io_manager, write_single): the returned frame is written.
SingleHandled(st, files) ==
    LET df == DataFrame(st.fetches[1].recs)
    IN  [run |-> [st EXCEPT !.pc = "done",
                            !.writes = <<[batch |-> 0, fetch |-> 1,
                                path |-> SinglePath(RAW_LAKE_PATH, RawKey(single_name)),
                                frame |-> drop_all_null_columns(df)]>>],
         disk |-> write_single(files, RAW_LAKE_PATH, RawKey(single_name), df, FALSE)]

\* asset_factories.py lines 175-185 and socrata_resource.py lines 57-93: the
\* run's fetch_data call up to its next wait.
SingleFetch(resp) ==
    /\ job.tier = "single"
    /\ run.pc = "paging"
    /\ \E query \in {Query(run.limit, NoOffset, order_field, NoParam)} :
       \E r \in {fetch_data(cache, EP_JSON, query, OneAnswer(run.attempt + 1, resp),
                             run.attempt, Sleeps(run.attempt))} :
            /\ cache' = r.cache
            /\ netlast' = IF r.kind = "ok" THEN CacheOf(EP_JSON, query, r.payload) ELSE netlast
            /\ run' = IF r.kind = "waiting"
                      THEN [run EXCEPT !.attempt = r.gets]
                      ELSE SingleFetched(run, r)
    /\ UNCHANGED <<call, source, disk, xf, job, lrun, clean, build, pcall, wh>>

\* The framework hands the frame raw_asset returned to the io manager.
SingleHandleOutput ==
    /\ job.tier = "single"
    /\ run.pc = "returned"
    /\ \E nxt \in {SingleHandled(run, disk)} :
            /\ run' = nxt.run
            /\ disk' = nxt.disk
    /\ UNCHANGED <<cache, call, netlast, source, xf, job, lrun, clean, build, pcall, wh>>

\* asset_factories.py lines 355-359: a large raw run begins; with no window
\* the for loop has nothing to do and the run returns "0 chunks".
LargeRawStart ==
    /\ job.tier = "large"
    /\ ~Active(lrun)
    /\ lrun.n < MaxRuns
    /\ LET windows == monthly_windows(job.start_date, job.end_date)
       IN  lrun' = [lrun EXCEPT !.pc = IF windows = <<>> THEN "done" ELSE "paging",
                                !.windows = windows,
                                !.w = IF windows = <<>> THEN 0 ELSE 1,
                                !.offset = 0, !.batch = 0, !.chunks = 0,
                                !.fetches = <<>>, !.writes = <<>>,
                                !.result = IF windows = <<>> THEN 0 ELSE -1,
                                !.n = lrun.n + 1, !.attempt = 0]
    /\ clean' = NoClean
    /\ UNCHANGED <<cache, call, netlast, source, disk, run, xf, job, build, pcall, wh>>

\* asset_factories.py lines 359-373 with the chunk counter of the window
\* kept when the run moves to the next window.
LargeRawFetchedKeepBatch(st, r, where) ==
    LET fetched == Append(st.fetches,
                          [w |-> st.w, offset |-> st.offset, where |-> where,
                           kind |-> r.kind, recs |-> r.payload])
    IN  IF r.kind = "raise"
        THEN [st EXCEPT !.pc = "failed", !.fetches = fetched, !.attempt = 0]
        ELSE IF r.payload = <<>>
        THEN IF st.w < Len(st.windows)
             THEN [st EXCEPT !.fetches = fetched, !.attempt = 0, !.w = st.w + 1,
                             !.offset = 0]
             ELSE [st EXCEPT !.fetches = fetched, !.attempt = 0, !.pc = "done",
                             !.result = st.chunks]
        ELSE [st EXCEPT !.pc = "writing", !.fetches = fetched, !.attempt = 0]

\* asset_factories.py lines 359-360, 371-373 and 387: fetch_data ended as r
\* for window st.w.  An exception leaves raw_asset; an empty page moves on
\* to the next window, or ends the run after the last one; rows go on to
\* the write.
LargeRawFetched(st, r, where) ==
    LET fetched == Append(st.fetches,
                          [w |-> st.w, offset |-> st.offset, where |-> where,
                           kind |-> r.kind, recs |-> r.payload])
    IN  IF r.kind = "raise"
        THEN [st EXCEPT !.pc = "failed", !.fetches = fetched, !.attempt = 0]
        ELSE IF r.payload = <<>>
        THEN IF st.w < Len(st.windows)
             THEN [st EXCEPT !.fetches = fetched, !.attempt = 0, !.w = st.w + 1,
                             !.offset = 0, !.batch = 0]
             ELSE [st EXCEPT !.fetches = fetched, !.attempt = 0, !.pc = "done",
                             !.result = st.chunks]
        ELSE [st EXCEPT !.pc = "writing", !.fetches = fetched, !.attempt = 0]

\* asset_factories.py lines 375-385: the rows of the last fetch become a
\* frame, written as the window's next chunk; the offset advances.
LargeRawWritten(st, files) ==
    LET win == st.windows[st.w]
        df == DataFrame(st.fetches[Len(st.fetches)].recs)
        batch == st.batch + 1
    IN  [run |-> [st EXCEPT !.pc = "paging",
                            !.batch = batch,
                            !.chunks = st.chunks + 1,
                            !.offset = st.offset + st.limit,
                            !.writes = Append(st.writes,
                                [w |-> st.w, batch |-> batch, fetch |-> Len(st.fetches),
                                 year |-> win.win_start.y, month |-> win.win_start.m,
                                 path |-> HiveChunkPath(RAW_LAKE_PATH, RawKey(large_name),
                                            batch, win.win_start.y, win.win_start.m),
                                 frame |-> drop_all_null_columns(df)])],
         disk |-> write_chunk_hive(files, RAW_LAKE_PATH, RawKey(large_name), batch, df,
                                   win.win_start.y, win.win_start.m)]

\* The query of the large run's next fetch (asset_factories.py lines 357-366).
LargeQuery(st) ==
    Query(st.limit, st.offset, order_field,
          WhereOf(extract_order_token(order_chars).token, st.windows[st.w]))

\* asset_factories.py lines 365-373 and socrata_resource.py lines 57-93: the
\* turn's fetch_data call up to its next wait.
LargeRawFetch(resp) ==
    /\ job.tier = "large"
    /\ lrun.pc = "paging"
    /\ \E query \in {LargeQuery(lrun)} :
       \E r \in {fetch_data(cache, EP_JSON, query, OneAnswer(lrun.attempt + 1, resp),
                             lrun.attempt, Sleeps(lrun.attempt))} :
            /\ cache' = r.cache
            /\ netlast' = IF r.kind = "ok" THEN CacheOf(EP_JSON, query, r.payload) ELSE netlast
            /\ lrun' = IF r.kind = "waiting"
                       THEN [lrun EXCEPT !.attempt = r.gets]
                       ELSE LargeRawFetched(lrun, r, query.where)
    /\ UNCHANGED <<call, source, disk, run, xf, job, clean, build, pcall, wh>>

\* asset_factories.py lines 375-385: the write of the turn.
LargeRawWrite ==
    /\ job.tier = "large"
    /\ lrun.pc = "writing"
    /\ \E nxt \in {LargeRawWritten(lrun, disk)} :
            /\ lrun' = nxt.run
            /\ disk' = nxt.disk
    /\ UNCHANGED <<cache, call, netlast, source, run, xf, job, clean, build, pcall, wh>>

(***************************************************************************)
(* Directory listing over the lake (os.path.exists, glob.glob, sorted).    *)
(* A listed path is the sequence of its components.                        *)
(***************************************************************************)
\* The components of a path, split at the separators.
RECURSIVE SplitFrom(_, _, _)
SplitFrom(p, i, cur) ==
    IF i > Len(p) THEN <<cur>>
    ELSE IF p[i] = "/" THEN <<cur>> \o SplitFrom(p, i + 1, <<>>)
    ELSE SplitFrom(p, i + 1, Append(cur, p[i]))

SplitPath(p) == SplitFrom(p, 1, <<>>)

\* os.path.join of components.
RECURSIVE JoinPath(_)
JoinPath(comps) ==
    IF Len(comps) = 1 THEN comps[1]
    ELSE comps[1] \o <<"/">> \o JoinPath(Tail(comps))

StartsWith(s, prefix) == Len(s) >= Len(prefix) /\ SubSeq(s, 1, Len(prefix)) = prefix

\* The entries (files and directories) directly inside directory dir.
Children(files, dir) ==
    {SubSeq(SplitPath(f.path), 1, Len(dir) + 1) :
        f \in {g \in files : /\ StartsWith(SplitPath(g.path), dir)
                             /\ Len(SplitPath(g.path)) > Len(dir)}}

\* glob(join(dir, "*.parquet")) and glob(join(dir, prefix + "*")).
GlobParquet(files, dir) ==
    {c \in Children(files, dir) : c[Len(c)][Len(c[Len(c)])] = ".parquet"}

GlobPrefix(files, dir, prefix) ==
    {c \in Children(files, dir) : c[Len(c)] # <<>> /\ c[Len(c)][1] = prefix}

\* glob(join(dir, "**", "*.parquet"), recursive=True).
GlobParquetRecursive(files, dir) ==
    {SplitPath(f.path) :
        f \in {g \in files : /\ StartsWith(SplitPath(g.path), dir)
                             /\ Len(SplitPath(g.path)) > Len(dir)
                             /\ g.path[Len(g.path)] = ".parquet"}}

\* The character code that orders a path token (its first character).
TokRank(tok) ==
    CASE tok = ".parquet" -> 46
      [] tok = "/" -> 47
      [] tok \in Range(DigitChars) -> 47 + (CHOOSE i \in DOMAIN DigitChars : DigitChars[i] = tok)
      [] tok \in {"_", "_raw"} -> 95
      [] tok = "clean" -> 99
      [] tok = "l" -> 108
      [] tok \in {"m", "month="} -> 109
      [] tok = "raw" -> 114
      [] tok = "s" -> 115
      [] tok = "year=" -> 121
      [] OTHER -> 0

\* a < b on path strings: the order of sorted().
RECURSIVE StrLess(_, _)
StrLess(a, b) ==
    IF b = <<>> THEN FALSE
    ELSE IF a = <<>> THEN TRUE
    ELSE IF Head(a) = Head(b) THEN StrLess(Tail(a), Tail(b))
    ELSE TokRank(Head(a)) < TokRank(Head(b))

\* sorted(paths).
RECURSIVE Sorted(_)
Sorted(S) ==
    IF S = {} THEN <<>>
    ELSE LET m == CHOOSE x \in S : \A y \in S \ {x} : StrLess(JoinPath(x), JoinPath(y))
         IN  <<m>> \o Sorted(S \ {m})

\* pl.scan_parquet(path): the frame stored at a listed path.
scan_parquet(files, comps) == (CHOOSE f \in files : f.path = JoinPath(comps)).frame

(***************************************************************************)
(* The clean operations (asset_factories.py lines 204-211, 282-295,        *)
(* 399-451).                                                               *)
(***************************************************************************)
\* The _transform the builders resolve from schema_cfg and order_field
\* (no transform_fn, no custom_fn), applied to lf.
resolved_transform(schema_cfg, lf) ==
    wrapped(auto_transform(schema_cfg, order_chars), "none", lf)

\* The common type two column types relax to.
Supertype(a, b) ==
    IF a = b THEN a ELSE IF a = "null" THEN b ELSE IF b = "null" THEN a ELSE "str"

RECURSIVE ConcatNames(_, _)
ConcatNames(acc, lfs) ==
    IF lfs = <<>> THEN acc
    ELSE ConcatNames(acc \o SelectSeq(names(Head(lfs)), LAMBDA n : n \notin Range(acc)),
                     Tail(lfs))

RECURSIVE ConcatType(_, _, _)
ConcatType(name, lfs, acc) ==
    IF lfs = <<>> THEN acc
    ELSE ConcatType(name, Tail(lfs),
                    IF name \in Range(names(Head(lfs)))
                    THEN Supertype(acc, pick(Head(lfs), name).dtype)
                    ELSE acc)

RECURSIVE ConcatCells(_, _, _)
ConcatCells(name, dtype, lfs) ==
    IF lfs = <<>> THEN <<>>
    ELSE (IF name \in Range(names(Head(lfs)))
          THEN cast_column(pick(Head(lfs), name), dtype).cells
          ELSE [i \in 1..height(Head(lfs)) |-> Null])
         \o ConcatCells(name, dtype, Tail(lfs))

\* pl.concat(lfs, how="diagonal_relaxed") keeping only the first frame's
\* columns.
concat_first_schema(lfs) ==
    LET cols == names(lfs[1])
    IN  [j \in 1..Len(cols) |->
            LET dtype == ConcatType(cols[j], lfs, "null")
            IN  Column(cols[j], dtype, ConcatCells(cols[j], dtype, lfs))]

\* pl.concat(lfs, how="diagonal_relaxed"): union of the columns by name, in
\* the order they first appear; a frame lacking a column gives nulls.
concat_diagonal_relaxed(lfs) ==
    LET cols == ConcatNames(<<>>, lfs)
    IN  [j \in 1..Len(cols) |->
            LET dtype == ConcatType(cols[j], lfs, "null")
            IN  Column(cols[j], dtype, ConcatCells(cols[j], dtype, lfs))]

\* [_transform(pl.scan_parquet(f)) for f in files]: the outcomes of the
\* transforms, in the order of the files.
RECURSIVE TransformChunks(_, _, _)
TransformChunks(files, schema_cfg, paths) ==
    IF paths = <<>> THEN <<>>
    ELSE <<resolved_transform(schema_cfg, scan_parquet(files, Head(paths)))>>
            \o TransformChunks(files, schema_cfg, Tail(paths))

\* The transformed chunks and their union, or the failure of a transform
\* (transforms counts the _transform calls made).
MergeOf(chunk_lfs) ==
    IF \E i \in DOMAIN chunk_lfs : ~chunk_lfs[i].ok
    THEN [ok |-> FALSE, chunks |-> <<>>, merged |-> <<>>,
          transforms |-> CHOOSE i \in DOMAIN chunk_lfs :
                            /\ ~chunk_lfs[i].ok
                            /\ \A k \in 1..(i - 1) : chunk_lfs[k].ok]
    ELSE With([i \in DOMAIN chunk_lfs |-> chunk_lfs[i].lf],
              LAMBDA lfs : [ok |-> TRUE, chunks |-> lfs,
                            merged |-> concat_diagonal_relaxed(lfs),
                            transforms |-> Len(lfs)])

MergeChunks(files, schema_cfg, paths) ==
    With(TransformChunks(files, schema_cfg, paths), LAMBDA chunk_lfs : MergeOf(chunk_lfs))

\* The raw files in the lake.
RawLake(files) == {g \in files : StartsWith(g.path, RAW_LAKE_PATH)}

\* The record of one clean run: how it ended, the raw lake it started
\* with (lake), the raw files it listed (found), the _transform calls it
\* made, the merges it computed and the files it wrote.
CleanRun(kind, files, found, transforms, merges, writes, result, processed) ==
    [kind |-> kind, lake |-> RawLake(files), found |-> found, transforms |-> transforms,
     merges |-> merges, writes |-> writes, result |-> result, processed |-> processed]

\* The schema polars resolves for a scanned file: the names and types of
\* its columns.
schema_of(lf) == [j \in 1..Len(lf) |-> [name |-> lf[j].name, dtype |-> lf[j].dtype]]

\* The columns of a schema as the frame lf holds them.
Projected(lf, schema) == [j \in 1..Len(schema) |-> pick(lf, schema[j].name)]

\* Every column of the schema is in lf with the schema's type.
Covers(lf, schema) ==
    \A j \in DOMAIN schema :
        /\ schema[j].name \in Range(names(lf))
        /\ pick(lf, schema[j].name).dtype = schema[j].dtype

\* asset_factories.py lines 208-210: the file is scanned and _transform
\* builds the LazyFrame (m being its outcome, the schema resolved by
\* collect_schema), which clean_asset returns to the framework; nothing is
\* read or written yet.
single_clean_asset_of(files, raw_pq, m) ==
    IF ~m.ok
    THEN CleanRun("error", files, {SplitPath(raw_pq)}, m.transforms, <<>>, <<>>, "error", 0)
    ELSE CleanRun("returned", files, {SplitPath(raw_pq)}, m.transforms, <<>>, <<>>,
                  "LazyFrame", 0)

\* asset_factories.py lines 204-211: clean_asset.
single_clean_asset(files, schema_cfg) ==
    With(SinglePath(RAW_LAKE_PATH, RawKey(single_name)),
         LAMBDA raw_pq :
            IF ~\E f \in files : f.path = raw_pq
            THEN CleanRun("not_found", files, {}, 0, <<>>, <<>>, "FileNotFoundError", 0)
            ELSE With(MergeChunks(files, schema_cfg, <<SplitPath(raw_pq)>>),
                      LAMBDA m : single_clean_asset_of(files, raw_pq, m)))

\* polars_parquet_io_manager.py lines 103-110: sink_parquet executed the
\* LazyFrame of the run st and streamed lf to the clean file.
single_sunk(st, files, lf) ==
    [clean |-> [st EXCEPT !.kind = "done", !.result = "done", !.processed = 1,
                          !.merges = <<[year |-> 0, month |-> NoMonth,
                                        files |-> Sorted(st.found),
                                        chunks |-> <<lf>>, merged |-> lf]>>,
                          !.writes = <<[path |-> SinglePath(CLEAN_LAKE_PATH, single_name),
                                        frame |-> lf]>>],
     disk |-> write_single(files, CLEAN_LAKE_PATH, single_name, lf, TRUE)]

\* sink_parquet raised: the clean file is not written.
single_sink_failed(st, files) ==
    [clean |-> [st EXCEPT !.kind = "error", !.result = "error"], disk |-> files]

\* polars_parquet_io_manager.py lines 126-128 and 103-110 (handle_output of
\* the clean_single_io_manager): the LazyFrame clean_asset returned is
\* executed, the raw file being read at this moment (now) with the plan
\* built on the schema the file had at the scan (was).  With the schema
\* unchanged the outcome is the transform of the rows the file holds now.
\* With another schema the polars build decides: the sink raises, or the
\* plan runs on the columns it knows (possible when the file still has
\* them) and its final select drops the others.
single_handle_output_of(st, files, schema_cfg, was, now) ==
    IF schema_of(now) = was
    THEN {single_sunk(st, files, resolved_transform(schema_cfg, now).lf)}
    ELSE {single_sink_failed(st, files)}
            \cup (IF Covers(now, was)
                  THEN {single_sunk(st, files,
                            resolved_transform(schema_cfg, Projected(now, was)).lf)}
                  ELSE {})

\* The outcomes of handle_output for the clean run st over the lake files.
single_handle_output(st, files, schema_cfg) ==
    With(SplitPath(SinglePath(RAW_LAKE_PATH, RawKey(single_name))),
         LAMBDA raw_pq :
            single_handle_output_of(st, files, schema_cfg,
                                    schema_of(scan_parquet(st.lake, raw_pq)),
                                    scan_parquet(files, raw_pq)))

\* asset_factories.py lines 288-295: the listed files are transformed,
\* merged and written, m being the outcome of the transforms and the concat.
medium_clean_of(files, found, m) ==
    IF ~m.ok
    THEN [clean |-> CleanRun("error", files, found, m.transforms, <<>>, <<>>, "error", 0),
          disk |-> files]
    ELSE [clean |-> CleanRun("done", files, found, m.transforms,
                        <<[year |-> 0, month |-> NoMonth, files |-> Sorted(found),
                           chunks |-> m.chunks, merged |-> m.merged]>>,
                        <<[path |-> SinglePath(CLEAN_LAKE_PATH, asset_name),
                           frame |-> m.merged]>>,
                        "done", 1),
          disk |-> write_single(files, CLEAN_LAKE_PATH, asset_name, m.merged, TRUE)]

\* asset_factories.py lines 282-295, with the empty listing concatenated
\* and written like any other.
medium_clean_no_skip(files, schema_cfg) ==
    With(GlobParquet(files, SplitPath(RAW_LAKE_PATH \o <<"/">> \o raw_key)),
         LAMBDA found :
            With(MergeChunks(files, schema_cfg, Sorted(found)),
                 LAMBDA m : medium_clean_of(files, found, m)))

\* asset_factories.py lines 282-295.
medium_clean(files, schema_cfg) ==
    With(GlobParquet(files, SplitPath(RAW_LAKE_PATH \o <<"/">> \o raw_key)),
         LAMBDA found :
            IF found = {}
            THEN [clean |-> CleanRun("skip", files, {}, 0, <<>>, <<>>, "skip", 0),
                  disk |-> files]
            ELSE With(MergeChunks(files, schema_cfg, Sorted(found)),
                      LAMBDA m : medium_clean_of(files, found, m)))

\* int(os.path.basename(path).split("=", 1)[1]) of a year= or month= entry.
DirNumber(comps) == parse_int(Tail(comps[Len(comps)]))

RECURSIVE FlattenSeqs(_)
FlattenSeqs(ss) == IF ss = <<>> THEN <<>> ELSE Head(ss) \o FlattenSeqs(Tail(ss))

\* asset_factories.py lines 405-415 and 431-434: the raw partitions the
\* clean run visits, in the order of its loops, each with its sorted files.
\* Monthly granularity walks the month directories only.
RawPartitionsMonthly(files) ==
    LET raw_root == SplitPath(RAW_LAKE_PATH \o <<"/">> \o RawKey(large_name))
        years == Sorted(GlobPrefix(files, raw_root, "year="))
    IN  FlattenSeqs([i \in DOMAIN years |->
            LET months == Sorted(GlobPrefix(files, years[i], "month="))
                parts == [k \in DOMAIN months |->
                            [year |-> DirNumber(years[i]), month |-> DirNumber(months[k]),
                             files |-> Sorted(GlobParquet(files, months[k]))]]
            IN  SelectSeq(parts, LAMBDA p : p.files # <<>>)])

\* asset_factories.py lines 405-449 with the monthly walk taken whatever the
\* granularity.
RawPartitionsByMonth(files, granularity) == RawPartitionsMonthly(files)

RawPartitions(files, granularity) ==
    LET raw_root == SplitPath(RAW_LAKE_PATH \o <<"/">> \o RawKey(large_name))
        years == Sorted(GlobPrefix(files, raw_root, "year="))
    IN  IF granularity = "month"
        THEN RawPartitionsMonthly(files)
        ELSE SelectSeq([i \in DOMAIN years |->
                            [year |-> DirNumber(years[i]), month |-> NoMonth,
                             files |-> Sorted(GlobParquetRecursive(files, years[i]))]],
                       LAMBDA p : p.files # <<>>)

\* asset_factories.py lines 417-429 and 436-449 for one partition p, m
\* being the outcome of its transforms and concat: the partition is written
\* as batch 1 and counted; a failing transform ends the run.  acc.found
\* holds the files listed so far (lines 413 and 433), those of p included.
CleanPartition(acc, p, m) ==
    IF ~m.ok
    THEN [acc EXCEPT !.ok = FALSE, !.transforms = acc.transforms + m.transforms,
                     !.found = acc.found \cup Range(p.files)]
    ELSE [ok |-> TRUE,
          found |-> acc.found \cup Range(p.files),
          disk |-> write_chunk_hive(acc.disk, CLEAN_LAKE_PATH, large_name, 1,
                                    m.merged, p.year, p.month),
          transforms |-> acc.transforms + m.transforms,
          merges |-> Append(acc.merges,
                         [year |-> p.year, month |-> p.month, files |-> p.files,
                          chunks |-> m.chunks, merged |-> m.merged]),
          writes |-> Append(acc.writes,
                         [path |-> HiveChunkPath(CLEAN_LAKE_PATH, large_name, 1,
                                                 p.year, p.month),
                          frame |-> drop_all_null_columns(m.merged)]),
          processed |-> acc.processed + 1]

\* The loops of lines 405-449 from partition i on.
RECURSIVE CleanPartitions(_, _, _, _)
CleanPartitions(acc, schema_cfg, parts, i) ==
    IF i > Len(parts) \/ ~acc.ok THEN acc
    ELSE With(CleanPartition(acc, parts[i],
                             MergeChunks(acc.disk, schema_cfg, parts[i].files)),
              LAMBDA nxt : CleanPartitions(nxt, schema_cfg, parts, i + 1))

\* The outcome of a large clean run that ended as acc: a partition after
\* the one whose transform or collect raised was never listed.
large_clean_of(files, parts, acc) ==
    [clean |-> CleanRun(IF acc.ok THEN "done" ELSE "error", files,
                        acc.found,
                        acc.transforms, acc.merges, acc.writes,
                        IF acc.ok THEN "partitions" ELSE "error", acc.processed),
     disk |-> acc.disk]

\* asset_factories.py lines 399-451.
large_clean(files, schema_cfg, granularity) ==
    With(RawPartitions(files, granularity),
         LAMBDA parts :
            With(CleanPartitions([ok |-> TRUE, found |-> {}, disk |-> files, transforms |-> 0,
                                  merges |-> <<>>, writes |-> <<>>, processed |-> 0],
                                 schema_cfg, parts, 1),
                 LAMBDA acc : large_clean_of(files, parts, acc)))

\* asset_factories.py lines 204-211: the framework runs clean_asset, which
\* returns the LazyFrame or raises.  The clean run is its own step of the
\* framework: raw runs of the asset may be under way.
SingleCleanAsset ==
    /\ job.tier = "single"
    /\ clean.kind # "returned"
    /\ \E c \in {single_clean_asset(disk, job.schema_cfg)} : clean' = c
    /\ UNCHANGED <<cache, call, netlast, source, disk, run, xf, job, lrun, build, pcall, wh>>

\* The framework hands the LazyFrame clean_asset returned to the io manager.
SingleCleanHandleOutput ==
    /\ job.tier = "single"
    /\ clean.kind = "returned"
    /\ \E c \in single_handle_output(clean, disk, job.schema_cfg) :
            clean' = c.clean /\ disk' = c.disk
    /\ UNCHANGED <<cache, call, netlast, source, run, xf, job, lrun, build, pcall, wh>>

\* A new process takes over the asset's runs (the framework launches a run
\* in a process of its own): the class attribute _cache is back at its
\* declared value (socrata_resource.py line 26).  No raw run is under way.
ProcessStart ==
    /\ cache # NoCache
    /\ ~Active(run)
    /\ ~Active(lrun)
    /\ cache' = NoCache
    /\ netlast' = NoCache
    /\ UNCHANGED <<call, source, disk, run, xf, job, lrun, clean, build, pcall, wh>>

\* One run of the asset's clean operation; raw runs of the asset are not
\* under way.
MediumClean ==
    /\ job.tier = "medium"
    /\ ~Active(run)
    /\ \E c \in {medium_clean(disk, job.schema_cfg)} : clean' = c.clean /\ disk' = c.disk
    /\ UNCHANGED <<cache, call, netlast, source, run, xf, job, lrun, build, pcall, wh>>

LargeClean ==
    /\ job.tier = "large"
    /\ ~Active(lrun)
    /\ \E c \in {large_clean(disk, job.schema_cfg, job.partition_granularity)} : clean' = c.clean /\ disk' = c.disk
    /\ UNCHANGED <<cache, call, netlast, source, run, xf, job, lrun, build, pcall, wh>>

(***************************************************************************)
(* The pipeline of one asset: raw runs and clean runs of its tier.         *)
(***************************************************************************)
\* The schema configs the tiers are built with.
RenamingCfg ==
    [rename_map |-> <<[k |-> N_ts, v |-> N_when]>>, dtype_overrides |-> <<>>,
     date_cols |-> <<N_ts>>, int_cols |-> <<>>]

TierCfgs == {PlainCfg, RenamingCfg}

\* The large assets: partition_granularity, start_date and end_date as the
\* asset files pass them, among them a range that is empty.
LargeJobs ==
    { AssetOf("large", "year", DT(2020, 12, 15, 12), DT(2021, 3, 1, 0), PlainCfg),
      AssetOf("large", "month", DT(2020, 12, 15, 12), DT(2021, 1, 10, 0), PlainCfg),
      AssetOf("large", "month", DT(2021, 1, 1, 0), DT(2021, 3, 1, 0), PlainCfg),
      AssetOf("large", "year", DT(2021, 1, 1, 0), DT(2020, 12, 10, 0), PlainCfg),
      AssetOf("large", "month", DT(2020, 12, 15, 12), DT(2020, 12, 10, 0), PlainCfg) }

InitTiers ==
    /\ cache = NoCache
    /\ call = NoCall
    /\ netlast = NoCache
    /\ xf = NoTransform
    /\ disk = {}
    /\ clean = NoClean
    /\ build = NoBuild
    /\ pcall = NoPathCall
    /\ wh = NoWarehouse
    /\ lrun \in {[IdleLargeRun EXCEPT !.limit = limit] : limit \in 1..MaxLimit}
    /\ run \in {IdleRun(limit) : limit \in 1..MaxLimit}
    /\ \/ /\ job \in {AssetOf("single", "month", NoDate, NoDate, cfg) : cfg \in TierCfgs}
          /\ source \in Sources
          /\ lrun.limit = 1
       \/ /\ job \in {AssetOf("medium", "month", NoDate, NoDate, cfg) : cfg \in TierCfgs}
          /\ source \in Sources
          /\ lrun.limit = 1
       \/ /\ job \in LargeJobs
          /\ source \in LargeSources
          /\ run.limit = 1

NextTiers ==
    \/ SingleRawStart
    \/ \E resp \in Answers(SinglePage(source,
                        Query(run.limit, NoOffset, order_field, NoParam))) :
            SingleFetch(resp)
    \/ SingleHandleOutput
    \/ SingleCleanAsset
    \/ SingleCleanHandleOutput
    \/ RawStart
    \/ \E resp \in Answers(Page(source,
                        Query(run.limit, run.offset, order_field, NoParam))) :
            RawFetch(resp)
    \/ RawWrite
    \/ MediumClean
    \/ LargeRawStart
    \/ \E resp \in (IF lrun.pc = "paging"
                    THEN Answers(LargePage(source, LargeQuery(lrun)))
                    ELSE {}) :
            LargeRawFetch(resp)
    \/ LargeRawWrite
    \/ LargeClean
    \/ \E src \in SourcesOf(job.tier) : SourceChange(src)
    \/ ProcessStart

SpecTiers == InitTiers /\ [][NextTiers]_vars

(***************************************************************************)
(* The builders at build time (asset_factories.py lines 125-138, 145-213,  *)
(* 220-297, 304-453).  An optional argument is [none, ...]; a schema       *)
(* config is the dict it was written as, a sequence of [k, v] items.       *)
(***************************************************************************)
NoneArg == [none |-> TRUE, v |-> <<>>]
Some(v) == [none |-> FALSE, v |-> v]

\* schema_cfg.get(key, default) for every key the code reads
\* (asset_factories.py lines 88 and 93, polars_helpers.py lines 55 and 60).
CfgOfDict(d) ==
    [rename_map |-> DictGet(d, "rename_map", <<>>),
     dtype_overrides |-> DictGet(d, "dtype_overrides", <<>>),
     date_cols |-> DictGet(d, "date_cols", <<>>),
     int_cols |-> DictGet(d, "int_cols", <<>>)]

\* asset_factories.py lines 125-138; _auto_transform raises IndexError from
\* _extract_order_token when order_field is blank.
resolve_transform(transform_fn, schema_cfg, order_arg) ==
    IF transform_fn THEN "ok"
    ELSE IF schema_cfg.none THEN "ValueError"
    ELSE IF order_arg.none \/ order_arg.v = <<>> THEN "ValueError"
    ELSE IF auto_transform(CfgOfDict(schema_cfg.v), order_arg.v).ok THEN "ok"
    ELSE "IndexError"

BuildResult(args, error, steps, ops) ==
    [kind |-> IF error = "ok" THEN "ok" ELSE "error", error |-> error, args |-> args,
     steps |-> steps, ops |-> ops]

\* asset_factories.py lines 160-213.
build_single_socrata_asset(args) ==
    LET r == resolve_transform(args.transform_fn, args.schema_cfg, args.order_field)
    IN  IF r # "ok"
        THEN BuildResult(args, r, <<"raw_asset", "_resolve_transform">>, {})
        ELSE BuildResult(args, r, <<"raw_asset", "_resolve_transform", "clean_asset">>,
                         {"raw", "clean"})

\* asset_factories.py lines 235-297.
build_medium_socrata_asset(args) ==
    LET r == resolve_transform(args.transform_fn, args.schema_cfg, args.order_field)
    IN  IF r # "ok"
        THEN BuildResult(args, r, <<"_resolve_transform">>, {})
        ELSE BuildResult(args, r, <<"_resolve_transform", "raw_asset", "clean_asset">>,
                         {"raw", "clean"})

\* asset_factories.py lines 322-453 with the granularity left unchecked.
build_large_unchecked(args) ==
    LET r == resolve_transform(args.transform_fn, args.schema_cfg, args.order_field)
    IN  IF r # "ok"
        THEN BuildResult(args, r, <<"_resolve_transform">>, {})
        ELSE BuildResult(args, r, <<"_resolve_transform", "raw_asset", "clean_asset">>,
                         {"raw", "clean"})

\* asset_factories.py lines 322-453.
build_large_socrata_asset(args) ==
    IF args.partition_granularity \notin {"month", "year"}
    THEN BuildResult(args, "ValueError", <<"check_granularity">>, {})
    ELSE LET r == resolve_transform(args.transform_fn, args.schema_cfg, args.order_field)
         IN  IF r # "ok"
             THEN BuildResult(args, r, <<"check_granularity", "_resolve_transform">>, {})
             ELSE BuildResult(args, r,
                              <<"check_granularity", "_resolve_transform",
                                "raw_asset", "clean_asset">>,
                              {"raw", "clean"})

\* The schema configs a builder is called with: none, an empty dict, a dict
\* without date_cols, and a dict like the repository's asset files write.
SchemaArgs ==
    { NoneArg,
      Some(<<>>),
      Some(<<[k |-> "rename_map", v |-> <<>>]>>),
      Some(<<[k |-> "rename_map", v |-> <<>>], [k |-> "date_cols", v |-> <<N_ts>>],
             [k |-> "int_cols", v |-> <<N_id>>]>>) }

OrderArgs == {NoneArg, Some(<<>>), Some(order_chars), Some(<<" ">>)}

Granularities == {"month", "year", "day", "Month"}

BuildArgs ==
    [tier : {"single", "medium"}, transform_fn : BOOLEAN, schema_cfg : SchemaArgs,
     order_field : OrderArgs, partition_granularity : {"month"}]
    \cup
    [tier : {"large"}, transform_fn : BOOLEAN, schema_cfg : SchemaArgs,
     order_field : OrderArgs, partition_granularity : Granularities]

\* One builder call with the pending arguments.
Build ==
    /\ build.kind = "pending"
    /\ build' = CASE build.args.tier = "single" -> build_single_socrata_asset(build.args)
                  [] build.args.tier = "medium" -> build_medium_socrata_asset(build.args)
                  [] OTHER -> build_large_socrata_asset(build.args)
    /\ UNCHANGED <<cache, call, netlast, source, disk, run, xf, job, lrun, clean, pcall, wh>>

InitBuild ==
    /\ cache = NoCache
    /\ call = NoCall
    /\ netlast = NoCache
    /\ source = <<>>
    /\ disk = {}
    /\ run = IdleRun(1)
    /\ xf = NoTransform
    /\ job = NoAsset
    /\ lrun = IdleLargeRun
    /\ clean = NoClean
    /\ pcall = NoPathCall
    /\ wh = NoWarehouse
    /\ build \in {[kind |-> "pending", error |-> "none", args |-> args, steps |-> <<>>,
                   ops |-> {}] : args \in BuildArgs}

NextBuild == Build

SpecBuild == InitBuild /\ [][NextBuild]_vars

(***************************************************************************)
(* The path resolver (polars_parquet_io_manager.py lines 51-75) and the    *)
(* paths the operations of an asset write to.                              *)
(***************************************************************************)
\* batch, year or month left at None.
NoneInt == [none |-> TRUE, v |-> 0]

\* The characters of a path token.
TokChars(tok) ==
    CASE tok = ".parquet" -> <<".", "p", "a", "r", "q", "u", "e", "t">>
      [] tok = "year=" -> <<"y", "e", "a", "r", "=">>
      [] tok = "month=" -> <<"m", "o", "n", "t", "h", "=">>
      [] tok = "_raw" -> <<"_", "r", "a", "w">>
      [] tok = "raw" -> <<"r", "a", "w">>
      [] tok = "clean" -> <<"c", "l", "e", "a", "n">>
      [] OTHER -> <<tok>>

\* The string a path is: its characters in order.
PathString(p) == FlattenSeqs([i \in DOMAIN p |-> TokChars(p[i])])

AssertionError == [ok |-> FALSE, path |-> <<>>]
Resolved(p) == [ok |-> TRUE, path |-> p]

\* _path with batch given and the year tested after it.
path_for_batch_first(base_dir, mode, asset, batch, year, month) ==
    IF batch.none THEN AssertionError
    ELSE IF mode = "single" THEN Resolved(SinglePath(base_dir, asset))
    ELSE IF mode = "flat_chunk" THEN Resolved(FlatChunkPath(base_dir, asset, batch.v))
    ELSE IF year.none THEN AssertionError
    ELSE Resolved(HiveChunkPath(base_dir, asset, batch.v, year.v,
                                IF month.none THEN NoMonth ELSE month.v))

\* PolarsParquetIOManager._path: batch, year and month are None or a number.
path_for(base_dir, mode, asset, batch, year, month) ==
    IF mode = "single" THEN Resolved(SinglePath(base_dir, asset))
    ELSE IF mode = "flat_chunk"
    THEN IF batch.none THEN AssertionError
         ELSE Resolved(FlatChunkPath(base_dir, asset, batch.v))
    ELSE IF year.none THEN AssertionError
    ELSE IF batch.none THEN AssertionError
    ELSE Resolved(HiveChunkPath(base_dir, asset, batch.v, year.v,
                                IF month.none THEN NoMonth ELSE month.v))

PathArgs(base_dir, mode, asset, batch, year, month) ==
    [base_dir |-> base_dir, mode |-> mode, asset |-> asset, batch |-> batch,
     year |-> year, month |-> month]

\* Asset names, one of them spelled like the raw key of another.
AssetNames == {asset_name, RawKey(asset_name), single_name}

\* The resolver calls of the model: any mode with any argument given or not.
PathCalls ==
    {PathArgs(b, mode, a, batch, year, month) :
        b \in {RAW_LAKE_PATH, CLEAN_LAKE_PATH},
        mode \in {"single", "flat_chunk", "hive_chunk"},
        a \in {asset_name, raw_key},
        batch \in {NoneInt, Some(1), Some(10)},
        year \in {NoneInt, Some(2023), Some(987)},
        month \in {NoneInt, Some(1), Some(12)}}

\* The resolver calls the raw and clean operations of the asset called name
\* make, whatever its tier, with the raw io managers on raw_base and the
\* clean ones on clean_base (asset_factories.py: the key and the batch, year
\* and month each operation passes).
WriterCallsIn(raw_base, clean_base, name) ==
    {PathArgs(raw_base, "single", RawKey(name), NoneInt, NoneInt, NoneInt),
     PathArgs(clean_base, "single", name, NoneInt, NoneInt, NoneInt)}
    \cup {PathArgs(raw_base, "flat_chunk", RawKey(name), Some(b), NoneInt, NoneInt) :
            b \in {1, 2}}
    \cup {PathArgs(raw_base, "hive_chunk", RawKey(name), Some(b), Some(2023), Some(m)) :
            b \in {1, 2}, m \in {1, 12}}
    \cup {PathArgs(clean_base, "hive_chunk", name, Some(1), Some(2023), m) :
            m \in {NoneInt, Some(1), Some(12)}}

\* Every io manager configured on the raw lake.
WriterCallsOneLake(name) == WriterCallsIn(RAW_LAKE_PATH, RAW_LAKE_PATH, name)

\* definitions.py lines 10-36: the io manager of each operation.
WriterCalls(name) == WriterCallsIn(RAW_LAKE_PATH, CLEAN_LAKE_PATH, name)

\* The pending resolver calls are made, in order.
ResolvePaths ==
    /\ pcall.kind = "pending"
    /\ pcall' = [pcall EXCEPT !.kind = "done",
                              !.out = [i \in DOMAIN pcall.calls |->
                                          path_for(pcall.calls[i].base_dir, pcall.calls[i].mode,
                                                   pcall.calls[i].asset, pcall.calls[i].batch,
                                                   pcall.calls[i].year, pcall.calls[i].month)]]
    /\ UNCHANGED <<cache, call, netlast, source, disk, run, xf, job, lrun, clean, build, wh>>

InitIdle ==
    /\ cache = NoCache
    /\ call = NoCall
    /\ netlast = NoCache
    /\ source = <<>>
    /\ disk = {}
    /\ run = IdleRun(1)
    /\ xf = NoTransform
    /\ job = NoAsset
    /\ lrun = IdleLargeRun
    /\ clean = NoClean
    /\ build = NoBuild

\* The same call is made twice.
InitPath ==
    /\ InitIdle
    /\ wh = NoWarehouse
    /\ pcall \in {[kind |-> "pending", owners |-> <<c.asset, c.asset>>, calls |-> <<c, c>>,
                   out |-> <<>>] : c \in PathCalls}

NextPath == ResolvePaths

SpecPath == InitPath /\ [][NextPath]_vars

\* One call of an operation of each of two assets.
InitWriters ==
    /\ InitIdle
    /\ wh = NoWarehouse
    /\ pcall \in UNION {{[kind |-> "pending", owners |-> <<a1, a2>>, calls |-> <<c1, c2>>,
                           out |-> <<>>] : c1 \in WriterCalls(a1), c2 \in WriterCalls(a2)} :
                         a1 \in AssetNames, a2 \in AssetNames}

NextWriters == ResolvePaths

SpecWriters == InitWriters /\ [][NextWriters]_vars

(***************************************************************************)
(* The writers of the io manager (polars_parquet_io_manager.py lines       *)
(* 78-122), called on their own with any frame.                            *)
(***************************************************************************)
WriteFailed(files, error) == [ok |-> FALSE, error |-> error, disk |-> files]
Written(files, p, frame) ==
    [ok |-> TRUE, error |-> "none",
     disk |-> {f \in files : f.path # p} \cup {[path |-> p, frame |-> frame]}]

\* write_single that prunes a lazy frame like a materialized one.
io_write_single_pruning(files, base_dir, mode, asset, obj) ==
    IF mode # "single" THEN WriteFailed(files, "RuntimeError")
    ELSE Written(files, SinglePath(base_dir, asset), drop_all_null_columns(obj.df))

\* polars_parquet_io_manager.py lines 99-122: write_single of an object
\* that is a LazyFrame (obj.lazy) or a DataFrame.
io_write_single(files, base_dir, mode, asset, obj) ==
    IF mode # "single" THEN WriteFailed(files, "RuntimeError")
    ELSE \* _path(asset=asset_name) in single mode
         Written(files, SinglePath(base_dir, asset),
                 IF obj.lazy THEN obj.df ELSE drop_all_null_columns(obj.df))

\* polars_parquet_io_manager.py lines 78-96: write_chunk of a DataFrame.
io_write_chunk(files, base_dir, mode, asset, batch_num, df, year, month) ==
    IF mode = "single" THEN WriteFailed(files, "RuntimeError")
    ELSE IF ~path_for(base_dir, mode, asset, Some(batch_num), year, month).ok
    THEN WriteFailed(files, "AssertionError")
    ELSE Written(files, path_for(base_dir, mode, asset, Some(batch_num), year, month).path,
                 drop_all_null_columns(df))

\* Frames a writer can be handed: columns of distinct names.
WriteFrames == {df \in Batches : Distinct(names(df))}

\* The writer calls of the model.
WriteCalls ==
    {[op |-> "write_chunk", mode |-> mode, obj |-> [lazy |-> FALSE, df |-> df],
      year |-> year, month |-> month] :
        mode \in {"single", "flat_chunk", "hive_chunk"}, df \in WriteFrames,
        year \in {NoneInt, Some(2023)}, month \in {NoneInt, Some(1)}}
    \cup
    {[op |-> "write_single", mode |-> mode, obj |-> [lazy |-> lazy, df |-> df],
      year |-> NoneInt, month |-> NoneInt] :
        mode \in {"single", "flat_chunk", "hive_chunk"}, df \in WriteFrames,
        lazy \in BOOLEAN}

\* The pending writer call is made on the raw lake.
WriteFile ==
    /\ pcall.kind = "write"
    /\ \E w \in {IF pcall.calls[1].op = "write_chunk"
                 THEN io_write_chunk(disk, RAW_LAKE_PATH, pcall.calls[1].mode, asset_name, 1,
                                     pcall.calls[1].obj.df, pcall.calls[1].year,
                                     pcall.calls[1].month)
                 ELSE io_write_single(disk, RAW_LAKE_PATH, pcall.calls[1].mode, asset_name,
                                      pcall.calls[1].obj)} :
          /\ disk' = w.disk
          /\ pcall' = [pcall EXCEPT !.kind = "written",
                                    !.out = <<[ok |-> w.ok, error |-> w.error]>>]
    /\ UNCHANGED <<cache, call, netlast, source, run, xf, job, lrun, clean, build, wh>>

InitWrite ==
    /\ InitIdle
    /\ wh = NoWarehouse
    /\ pcall \in {[kind |-> "write", owners |-> <<asset_name>>, calls |-> <<c>>, out |-> <<>>] :
                    c \in WriteCalls}

NextWrite == WriteFile

SpecWrite == InitWrite /\ [][NextWrite]_vars

(***************************************************************************)
(* The warehouse builder (w.py).  The lake is a set of files under the     *)
(* three layer directories; a database file holds views or tables and the  *)
(* rows of registry__assets.                                               *)
(***************************************************************************)
ANALYTICS_PATH == <<"analytics">>

\* cfg.paths[layer].
LayerPath(layer) ==
    CASE layer = "analytics" -> ANALYTICS_PATH
      [] layer = "clean" -> CLEAN_LAKE_PATH
      [] OTHER -> RAW_LAKE_PATH

NoGlob == [found |-> FALSE, pat |-> <<>>, kind |-> "none"]
GlobHit(pat, kind) == [found |-> TRUE, pat |-> pat, kind |-> kind]

\* w.py lines 96-99: the four candidate patterns under root, as strings.
HiveMonthlyPat(root) == root \o <<"/", "year=", "*", "/", "month=", "*", "/", "*", ".parquet">>
HiveYearlyPat(root) == root \o <<"/", "year=", "*", "/", "*", ".parquet">>
FlatPat(root) == root \o <<"/", "*", ".parquet">>
DeepPat(root) == root \o <<"/", "**", "/", "*", ".parquet">>

\* glob.glob of the four patterns: is there a match.
MatchesHiveMonthly(files, root) ==
    \E y \in GlobPrefix(files, root, "year=") :
        \E m \in GlobPrefix(files, y, "month=") : GlobParquet(files, m) # {}
MatchesHiveYearly(files, root) ==
    \E y \in GlobPrefix(files, root, "year=") : GlobParquet(files, y) # {}
MatchesFlat(files, root) == GlobParquet(files, root) # {}
MatchesDeep(files, root) == GlobParquetRecursive(files, root) # {}

\* find_first_glob with the flat pattern tried first.
find_first_glob_flat_first(files, base, asset) ==
    With(base \o <<"/">> \o asset,
         LAMBDA root :
            IF MatchesFlat(files, SplitPath(root)) THEN GlobHit(FlatPat(root), "flat")
            ELSE IF MatchesHiveMonthly(files, SplitPath(root))
            THEN GlobHit(HiveMonthlyPat(root), "hive_monthly")
            ELSE IF MatchesHiveYearly(files, SplitPath(root))
            THEN GlobHit(HiveYearlyPat(root), "hive_yearly")
            ELSE IF MatchesDeep(files, SplitPath(root)) THEN GlobHit(DeepPat(root), "deep")
            ELSE NoGlob)

\* w.py lines 89-105.
find_first_glob(files, base, asset) ==
    With(base \o <<"/">> \o asset,
         LAMBDA root :
            IF MatchesHiveMonthly(files, SplitPath(root))
            THEN GlobHit(HiveMonthlyPat(root), "hive_monthly")
            ELSE IF MatchesHiveYearly(files, SplitPath(root))
            THEN GlobHit(HiveYearlyPat(root), "hive_yearly")
            ELSE IF MatchesFlat(files, SplitPath(root)) THEN GlobHit(FlatPat(root), "flat")
            ELSE IF MatchesDeep(files, SplitPath(root)) THEN GlobHit(DeepPat(root), "deep")
            ELSE NoGlob)

\* w.py lines 108-115: the layers of search_order from layer i on.
RECURSIVE autodetect_from(_, _, _, _)
autodetect_from(files, search_order, asset, i) ==
    IF i > Len(search_order) THEN NoGlob
    ELSE With(find_first_glob(files, LayerPath(search_order[i]), asset),
              LAMBDA got : IF got.found THEN got
                           ELSE autodetect_from(files, search_order, asset, i + 1))

autodetect_glob(files, cfg, asset) == autodetect_from(files, cfg.search_order, asset, 1)

\* tok in a, on strings.
Contains(a, tok) ==
    \E i \in 0..(Len(a) - Len(tok)) : SubSeq(a, i + 1, i + Len(tok)) = tok

\* w.py lines 194-206: the selection loop from asset i on.  only is the set
\* of --only names (empty: no filter), exclude the set of --exclude tokens.
RECURSIVE select_from(_, _, _, _, _)
select_from(files, cfg, args, i, acc) ==
    IF i > Len(cfg.assets) THEN acc
    ELSE IF args.only # {} /\ cfg.assets[i] \notin args.only
    THEN select_from(files, cfg, args, i + 1, acc)
    ELSE IF \E tok \in args.exclude : Contains(PathString(cfg.assets[i]), PathString(tok))
    THEN select_from(files, cfg, args, i + 1, acc)
    ELSE With(autodetect_glob(files, cfg, cfg.assets[i]),
              LAMBDA sel :
                IF ~sel.found
                THEN select_from(files, cfg, args, i + 1,
                                 [acc EXCEPT !.skipped = Append(@, cfg.assets[i])])
                ELSE select_from(files, cfg, args, i + 1,
                                 [acc EXCEPT !.selected =
                                     Append(@, [asset |-> cfg.assets[i], pat |-> sel.pat,
                                                kind |-> sel.kind])]))

\* duckdb.connect on a path with no file: a new, empty database.
EmptyDb == [exists |-> TRUE, complete |-> FALSE, objects |-> {}, registry |-> <<>>]

\* w.py lines 136-150: CREATE OR REPLACE VIEW / TABLE for the items from i on.
RECURSIVE create_objects(_, _, _, _)
create_objects(objects, items, as_tables, i) ==
    IF i > Len(items) THEN objects
    ELSE create_objects(
            {o \in objects : o.name # items[i].asset}
                \cup {[name |-> items[i].asset,
                       stmt |-> IF as_tables THEN "TABLE" ELSE "VIEW",
                       pat |-> items[i].pat]},
            items, as_tables, i + 1)

\* create_views_or_tables with an executemany that accepts no rows.
create_views_or_tables_lenient(db, items, as_tables) ==
    [ok |-> TRUE, error |-> "none",
     db |-> [db EXCEPT !.objects = create_objects(db.objects, items, as_tables, 1),
                       !.registry = items, !.complete = TRUE]]

\* w.py lines 123-158.  The registry table is dropped, created and filled
\* with one row per item; duckdb's executemany rejects an empty list of
\* parameter sets.
create_views_or_tables(db, items, as_tables) ==
    IF items = <<>>
    THEN [ok |-> FALSE, error |-> "InvalidInputException",
          db |-> [db EXCEPT !.registry = <<>>]]
    ELSE [ok |-> TRUE, error |-> "none",
          db |-> [db EXCEPT !.objects = create_objects(db.objects, items, as_tables, 1),
                            !.registry = items, !.complete = TRUE]]

\* w.py lines 188-215: arguments parsed, assets selected; --list returns
\* before anything is written.
WhStart ==
    /\ wh.pc = "start"
    /\ \E acc \in {select_from(wh.lake, wh.cfg, wh.args, 1,
                               [selected |-> <<>>, skipped |-> <<>>])} :
          wh' = [wh EXCEPT !.selected = acc.selected, !.skipped = acc.skipped,
                           !.before = wh.db,
                           !.pc = IF wh.args.list THEN "done" ELSE "wipe",
                           !.result = IF wh.args.list THEN "listed" ELSE "none"]
    /\ UNCHANGED <<cache, call, netlast, source, disk, run, xf, job, lrun, clean, build, pcall>>

\* w.py lines 217-221: the previous warehouse is removed unless --no-wipe.
WhWipe ==
    /\ wh.pc = "wipe"
    /\ wh' = [wh EXCEPT !.db = IF wh.db.exists /\ wh.args.wipe THEN NoFile ELSE wh.db,
                        !.pc = "connect"]
    /\ UNCHANGED <<cache, call, netlast, source, disk, run, xf, job, lrun, clean, build, pcall>>

\* w.py lines 224-228: a leftover tmp file is removed and duckdb.connect
\* creates the tmp database.
WhConnect ==
    /\ wh.pc = "connect"
    /\ wh' = [wh EXCEPT !.tmp = EmptyDb, !.pc = "httpfs"]
    /\ UNCHANGED <<cache, call, netlast, source, disk, run, xf, job, lrun, clean, build, pcall>>

\* w.py lines 118-120 and 229-233: INSTALL httpfs; LOAD httpfs.  The
\* extension is installed from the network when it is not yet there, which
\* can fail; the connection is closed and the error leaves main.
WhHttpfs ==
    /\ wh.pc = "httpfs"
    /\ \E installed \in BOOLEAN :
          wh' = IF installed THEN [wh EXCEPT !.pc = "create"]
                ELSE [wh EXCEPT !.pc = "failed", !.result = "error", !.error = "IOException"]
    /\ UNCHANGED <<cache, call, netlast, source, disk, run, xf, job, lrun, clean, build, pcall>>

\* w.py lines 231-233: create_views_or_tables on the tmp database, then
\* con.close().
WhCreate ==
    /\ wh.pc = "create"
    /\ \E r \in {create_views_or_tables(wh.tmp, wh.selected, wh.args.as_tables)} :
          wh' = [wh EXCEPT !.tmp = r.db,
                           !.pc = IF r.ok THEN "replace" ELSE "failed",
                           !.result = IF r.ok THEN "none" ELSE "error",
                           !.error = r.error]
    /\ UNCHANGED <<cache, call, netlast, source, disk, run, xf, job, lrun, clean, build, pcall>>

\* w.py lines 235-237: tmp.replace(wh) and return 0.
WhReplace ==
    /\ wh.pc = "replace"
    /\ wh' = [wh EXCEPT !.db = wh.tmp, !.tmp = NoFile, !.pc = "done", !.result = "0"]
    /\ UNCHANGED <<cache, call, netlast, source, disk, run, xf, job, lrun, clean, build, pcall>>

WhAsset1 == <<"m">>
WhAsset2 == <<"s">>

\* A file of the lake (its content plays no part).
LakeFile(p) == [path |-> p, frame |-> <<>>]

\* Files the lake can hold.
WhFilePool ==
    { LakeFile(HiveChunkPath(CLEAN_LAKE_PATH, WhAsset1, 1, 2023, 1)),
      LakeFile(HiveChunkPath(CLEAN_LAKE_PATH, WhAsset1, 1, 2023, NoMonth)),
      LakeFile(SinglePath(CLEAN_LAKE_PATH, WhAsset1)),
      LakeFile(CLEAN_LAKE_PATH \o <<"/">> \o WhAsset1 \o <<"/", "x", "/">> \o WhAsset1
                 \o <<".parquet">>),
      LakeFile(CLEAN_LAKE_PATH \o <<"/">> \o WhAsset1 \o <<"/", "year=", "2", "0", "2", "3",
                                   "/", "month=", "0", "1", "/", "n">>),
      LakeFile(SinglePath(RAW_LAKE_PATH, WhAsset1)),
      LakeFile(HiveChunkPath(ANALYTICS_PATH, WhAsset1, 1, 2023, NoMonth)),
      LakeFile(SinglePath(CLEAN_LAKE_PATH, WhAsset2)) }

\* Lakes of at most two files.
WhLakes == {L \in SUBSET WhFilePool : Cardinality(L) <= 2}

\* The YAML configs.
WhConfigs ==
    [search_order : {<<"analytics", "clean", "raw">>, <<"raw", "clean">>},
     assets : {<<WhAsset1>>, <<WhAsset1, WhAsset2>>}]

WhArgs(wipe, list, as_tables, only, exclude) ==
    [wipe |-> wipe, list |-> list, as_tables |-> as_tables, only |-> only,
     exclude |-> exclude]

\* The command lines: none, --no-wipe, --list, --as-tables, --only m,
\* --exclude s and --no-wipe with --only m or with --as-tables --exclude s.
WhCommandLines ==
    { WhArgs(TRUE, FALSE, FALSE, {}, {}),
      WhArgs(FALSE, FALSE, FALSE, {}, {}),
      WhArgs(TRUE, TRUE, FALSE, {}, {}),
      WhArgs(TRUE, FALSE, TRUE, {}, {}),
      WhArgs(TRUE, FALSE, FALSE, {WhAsset1}, {}),
      WhArgs(TRUE, FALSE, FALSE, {}, {WhAsset2}),
      WhArgs(FALSE, FALSE, FALSE, {WhAsset1}, {}),
      WhArgs(FALSE, FALSE, TRUE, {}, {WhAsset2}) }

\* What an earlier build registered.
EarlierItems ==
    { <<[asset |-> WhAsset1, pat |-> FlatPat(CLEAN_LAKE_PATH \o <<"/">> \o WhAsset1),
         kind |-> "flat"]>>,
      <<[asset |-> WhAsset1, pat |-> FlatPat(CLEAN_LAKE_PATH \o <<"/">> \o WhAsset1),
         kind |-> "flat"],
        [asset |-> WhAsset2, pat |-> FlatPat(CLEAN_LAKE_PATH \o <<"/">> \o WhAsset2),
         kind |-> "flat"]>> }

\* The warehouse file before the build: none, or what an earlier build left.
EarlierWarehouses ==
    {NoFile} \cup {create_views_or_tables(EmptyDb, items, FALSE).db : items \in EarlierItems}

\* The tmp file before the build: none, or what a failed build left.
EarlierTmps == {NoFile, EmptyDb}

InitWarehouse ==
    /\ InitIdle
    /\ pcall = NoPathCall
    /\ wh \in {[NoWarehouse EXCEPT !.pc = "start", !.lake = lake, !.cfg = cfg, !.args = args,
                                   !.db = db, !.tmp = tmp, !.before = db] :
                 lake \in WhLakes, cfg \in WhConfigs, args \in WhCommandLines,
                 db \in EarlierWarehouses, tmp \in EarlierTmps}

NextWarehouse ==
    \/ WhStart
    \/ WhWipe
    \/ WhConnect
    \/ WhHttpfs
    \/ WhCreate
    \/ WhReplace

SpecWarehouse == InitWarehouse /\ [][NextWarehouse]_vars

(***************************************************************************)
(* Clean runs over raw lakes as the raw operations can leave them: every   *)
(* raw chunk was written through the pruning of all-null columns.          *)
(***************************************************************************)
\* Types declared through dtype_overrides: the ordering column is cast.
CastCfg ==
    [rename_map |-> <<>>, dtype_overrides |-> <<[k |-> N_ts, v |-> "datetime"]>>,
     date_cols |-> <<N_ts>>, int_cols |-> <<>>]

\* One-row raw chunks: the ordering column holds a timestamp, holds a text
\* that is no timestamp, or is not there (no row of the page had a value).
RawChunkFrames ==
    { <<Column(N_ts, "str", <<Str("2021-01-01T00:00:00")>>), Column(N_id, "str", <<Str("1")>>)>>,
      <<Column(N_ts, "str", <<Str("n/a")>>), Column(N_id, "str", <<Str("1")>>)>>,
      <<Column(N_id, "str", <<Str("2")>>)>> }

\* Up to two files at the given paths, the first always there.
LakesAt(p1, p2) ==
    {{[path |-> p1, frame |-> f]} : f \in RawChunkFrames}
    \cup {{[path |-> p1, frame |-> f], [path |-> p2, frame |-> g]} :
            f \in RawChunkFrames, g \in RawChunkFrames}

\* Raw lakes of the large asset: one or two chunks of January 2021, with or
\* without a chunk of February.
LargeRawLakes ==
    {L \cup M : L \in LakesAt(HiveChunkPath(RAW_LAKE_PATH, RawKey(large_name), 1, 2021, 1),
                              HiveChunkPath(RAW_LAKE_PATH, RawKey(large_name), 2, 2021, 1)),
                M \in {{}} \cup {{[path |-> HiveChunkPath(RAW_LAKE_PATH, RawKey(large_name),
                                                          1, 2021, 2),
                                   frame |-> f]} : f \in RawChunkFrames}}

InitCleanFiles ==
    /\ cache = NoCache
    /\ call = NoCall
    /\ netlast = NoCache
    /\ source = <<>>
    /\ run = IdleRun(1)
    /\ xf = NoTransform
    /\ lrun = IdleLargeRun
    /\ clean = NoClean
    /\ build = NoBuild
    /\ pcall = NoPathCall
    /\ wh = NoWarehouse
    /\ \/ /\ job \in {AssetOf("single", "month", NoDate, NoDate, cfg) :
                        cfg \in {PlainCfg, CastCfg}}
          /\ disk \in {{[path |-> SinglePath(RAW_LAKE_PATH, RawKey(single_name)),
                         frame |-> f]} : f \in RawChunkFrames}
       \/ /\ job \in {AssetOf("medium", "month", NoDate, NoDate, cfg) :
                        cfg \in {PlainCfg, CastCfg}}
          /\ disk \in LakesAt(FlatChunkPath(RAW_LAKE_PATH, raw_key, 1),
                              FlatChunkPath(RAW_LAKE_PATH, raw_key, 2))
       \/ /\ job \in {AssetOf("large", g, DT(2021, 1, 1, 0), DT(2021, 3, 1, 0), cfg) :
                        g \in {"month", "year"}, cfg \in {PlainCfg, CastCfg}}
          /\ disk \in LargeRawLakes

NextCleanFiles ==
    \/ SingleCleanAsset
    \/ SingleCleanHandleOutput
    \/ MediumClean
    \/ LargeClean

SpecCleanFiles == InitCleanFiles /\ [][NextCleanFiles]_vars

(***************************************************************************)
(* Clean runs over the chunks of a long raw run: chunk b holds the row of  *)
(* page b.                                                                 *)
(***************************************************************************)
\* Chunks of the longest raw run.
MaxChunks == 11

\* The chunk of page b: one row, its id the page number.
PageChunk(b) ==
    <<Column(N_ts, "str", <<Str("2021-01-01T00:00:00")>>),
      Column(N_id, "str", <<Str(digits(b))>>)>>

\* The raw lake a medium raw run of n pages leaves.
MediumChunks(n) ==
    {[path |-> FlatChunkPath(RAW_LAKE_PATH, raw_key, b), frame |-> PageChunk(b)] : b \in 1..n}

\* The raw lake a large raw run leaves whose window of January 2021 had n pages.
LargeChunks(n) ==
    {[path |-> HiveChunkPath(RAW_LAKE_PATH, RawKey(large_name), b, 2021, 1),
      frame |-> PageChunk(b)] : b \in 1..n}

InitOrder ==
    /\ cache = NoCache
    /\ call = NoCall
    /\ netlast = NoCache
    /\ source = <<>>
    /\ run = IdleRun(1)
    /\ xf = NoTransform
    /\ lrun = IdleLargeRun
    /\ clean = NoClean
    /\ build = NoBuild
    /\ pcall = NoPathCall
    /\ wh = NoWarehouse
    /\ \/ /\ job \in {AssetOf("medium", "month", NoDate, NoDate, cfg) :
                        cfg \in {PlainCfg, CastCfg}}
          /\ disk \in {MediumChunks(n) : n \in 1..MaxChunks}
       \/ /\ job \in {AssetOf("large", g, DT(2021, 1, 1, 0), DT(2021, 2, 1, 0), cfg) :
                        g \in {"month", "year"}, cfg \in {PlainCfg, CastCfg}}
          /\ disk \in {LargeChunks(n) : n \in 1..MaxChunks}

NextOrder ==
    \/ MediumClean
    \/ LargeClean

SpecOrder == InitOrder /\ [][NextOrder]_vars

(***************************************************************************)
(* Properties of fetch_data, stated on the most recent direct call.        *)
(***************************************************************************)
ThroughNetwork == call.kind \in {"ok", "raise"}

IsTimeout(resp) == resp.st = "timeout"
IsHttpError(resp) == resp.st = "http_error"
IsEmpty200(resp) == resp.st = "200" /\ Decode(call.endpoint, resp.body) = <<>>
IsRows200(resp) == resp.st = "200" /\ Decode(call.endpoint, resp.body) # <<>>

\* How many of the answers the call consumed satisfy P.
CountUsed(P(_)) == Cardinality({i \in DOMAIN call.used : P(call.used[i])})

\* The number of timeouts before the first HTTP 200 of the consumed answers.
LeadingTimeouts ==
    Cardinality({i \in DOMAIN call.used : \A j \in 1..i : IsTimeout(call.used[j])})

\* C1: a cache-missing call whose first k GETs time out (k <= 3) and whose
\* next GET returns a non-empty payload returns that payload after exactly
\* k+1 GETs; a call whose every GET times out raises after exactly 4 GETs,
\* having slept 1 s, 2 s and 4 s between them.
C1_TimeoutRetries ==
    ThroughNetwork =>
        LET k == LeadingTimeouts
        IN  /\ (k < Len(call.used) /\ IsRows200(call.used[k + 1])) =>
                    /\ k <= MAX_READ_RETRIES
                    /\ call.kind = "ok"
                    /\ call.payload = Decode(call.endpoint, call.used[k + 1].body)
                    /\ call.gets = k + 1
            /\ (k = Len(call.used)) =>
                    /\ call.kind = "raise"
                    /\ call.error = "ReadTimeout"
                    /\ call.gets = 4
                    /\ call.sleeps = <<1, 2, 4>>

\* C1 witness: two timeouts, then rows, returned by the third GET.
C1_Witness ==
    /\ call.kind = "ok"
    /\ call.gets = 3
    /\ IsTimeout(call.used[1]) /\ IsTimeout(call.used[2])
    /\ call.payload # <<>>

\* C2: a call whose every GET returns HTTP 200 with an empty payload issues
\* exactly 3 GETs and returns the empty sequence; a call never raises on an
\* empty payload (the last answer before a raise is a transport error or an
\* HTTP error status, never an HTTP 200).
C2_EmptyRetries ==
    ThroughNetwork =>
        /\ (CountUsed(IsEmpty200) = Len(call.used)) =>
                /\ call.kind = "ok"
                /\ call.payload = <<>>
                /\ call.gets = 3
        /\ (call.kind = "raise") =>
                (IsTimeout(call.used[call.gets]) \/ IsHttpError(call.used[call.gets]))

\* C2 witness: three empty HTTP 200 answers, accepted as the result.
C2_Witness ==
    /\ call.kind = "ok"
    /\ call.payload = <<>>
    /\ call.gets = 3
    /\ CountUsed(IsEmpty200) = 3

\* C3: the two retry budgets are independent: an empty payload is accepted
\* only after 1 + 2 empty answers, however many timeouts came before, and a
\* transport error propagates only after 1 + 3 timeouts, however many empty
\* answers came before.
C3_IndependentBudgets ==
    ThroughNetwork =>
        /\ (call.kind = "ok" /\ call.payload = <<>>) =>
                CountUsed(IsEmpty200) = MAX_EMPTY_RETRIES + 1
        /\ (call.kind = "raise" /\ call.error = "ReadTimeout") =>
                CountUsed(IsTimeout) = MAX_READ_RETRIES + 1

\* C4: a call whose (endpoint, query_params) is that of the most recent fetch
\* that completed through the network returns that fetch's payload with zero
\* GETs; a call that differs from the cached pair goes to the network.
C4_CacheHit ==
    (call.kind # "none") =>
        /\ (/\ call.netBefore.full
             /\ call.netBefore.endpoint = call.endpoint
             /\ call.netBefore.params = call.params) =>
                /\ call.kind = "hit"
                /\ call.payload = call.netBefore.payload
                /\ call.gets = 0
        /\ (\/ ~call.cacheBefore.full
             \/ call.cacheBefore.endpoint # call.endpoint
             \/ call.cacheBefore.params # call.params) =>
                /\ call.kind \in {"waiting", "ok", "raise"}
                /\ call.gets >= 1

\* C4 witness: a repeat of the cached query, served without a GET.
C4_Witness ==
    /\ call.kind = "hit"
    /\ call.gets = 0
    /\ call.netBefore.full
    /\ call.netBefore.params = call.params
    /\ call.payload # <<>>

\* C5: the slot holds exactly the (endpoint, query_params, payload) of the
\* most recent call that returned through the network, an accepted empty
\* payload included; a raising call and a cache-served call leave the slot
\* unchanged, as does a call still in its retry loop.
C5_CacheIsLastNetworkFetch ==
    /\ cache = netlast
    /\ (call.kind \in {"raise", "hit", "waiting"}) => cache = call.cacheBefore

\* C5 witness: an accepted empty payload replaced a non-empty cached one.
C5_Witness ==
    /\ call.kind = "ok"
    /\ call.payload = <<>>
    /\ call.cacheBefore.full
    /\ call.cacheBefore.payload # <<>>
    /\ cache = CacheOf(call.endpoint, call.params, <<>>)

(***************************************************************************)
(* Properties of the medium raw run, stated on the run's log.              *)
(***************************************************************************)
\* The row ids a frame holds, and the row ids of a list of records.
FrameIds(df) ==
    IF \E j \in DOMAIN df : df[j].name = N_id
    THEN df[CHOOSE j \in DOMAIN df : df[j].name = N_id].cells
    ELSE <<>>

RecIds(recs) == [i \in 1..Len(recs) |-> Get(recs[i], N_id)]

SourceIds(src, lo, hi) == [i \in 1..(hi - lo + 1) |-> Str(ToString(src[lo + i - 1]))]

NonEmptyFetch(f) == f.kind # "raise" /\ f.recs # <<>>

Ceil(n, l) == (n + l - 1) \div l

\* C6: a medium raw run fetches at offsets 0, limit, 2*limit, ... in that
\* order, writes the j-th non-empty page as chunk j (the j-th fetch, at the
\* flat_chunk path of batch j), makes no fetch and no write after an empty
\* result, and returns exactly when a fetch_data result is empty.
C6_PagingOrder ==
    LET F == run.fetches
        W == run.writes
    IN  /\ \A i \in DOMAIN F : F[i].offset = (i - 1) * run.limit
        /\ \A i \in DOMAIN F : (i < Len(F)) => NonEmptyFetch(F[i])
        /\ Len(W) + (IF run.pc = "writing" THEN 1 ELSE 0)
                = Cardinality({i \in DOMAIN F : NonEmptyFetch(F[i])})
        /\ \A j \in DOMAIN W :
                /\ W[j].batch = j
                /\ W[j].fetch = j
                /\ W[j].path = FlatChunkPath(RAW_LAKE_PATH, raw_key, j)
                /\ FrameIds(W[j].frame) = RecIds(F[j].recs)
        /\ (run.pc = "done") <=>
                (F # <<>> /\ F[Len(F)].kind # "raise" /\ F[Len(F)].recs = <<>>)

\* C6 witness: two pages written as chunks 1 and 2, then the empty page.
C6_Witness ==
    /\ run.pc = "done"
    /\ run.limit = 1
    /\ Len(run.writes) = 2
    /\ Len(run.fetches) = 3
    /\ run.fetches[3].offset = 2

\* C7: a run that does not fail, over a source of N rows that does not
\* change during the run, writes exactly ceil(N/L) chunks, chunk k holding
\* the rows at positions (k-1)*L .. min(k*L, N)-1, and reports total N.
C7_ChunksPartitionSource ==
    (run.pc = "done" /\ ~run.changed) =>
        LET N == Len(run.src0)
            L == run.limit
        IN  /\ Len(run.writes) = Ceil(N, L)
            /\ \A k \in DOMAIN run.writes :
                    FrameIds(run.writes[k].frame)
                        = SourceIds(run.src0, (k - 1) * L + 1, Min(k * L, N))
            /\ run.result = N

\* C8: after a completed raw run the raw chunk files on disk are exactly
\* the files that run wrote.
C8_DiskIsLastRun ==
    (run.pc = "done") =>
        disk = {[path |-> w.path, frame |-> w.frame] : w \in Range(run.writes)}

(***************************************************************************)
(* Properties of the auto transform, stated on its most recent output.     *)
(***************************************************************************)
\* The input batch carries the ordering field (under its destination name
\* once snake-cased and renamed).
OrderingFieldInInput ==
    \E j \in DOMAIN xf.input :
        DictGet(xf.schema_cfg.rename_map, snake_name(xf.input[j].name),
                snake_name(xf.input[j].name)) = xf.final_field

\* C9: every output of the auto transform has a column named date_column,
\* and it is the first column, whether or not the ordering field was in the
\* input batch and whatever the custom function returned.
C9_DateColumnFirst ==
    (xf.kind = "ok") =>
        /\ xf.out # <<>>
        /\ xf.out[1].name = N_date_column
        /\ Cardinality({j \in DOMAIN xf.out : xf.out[j].name = N_date_column}) = 1

\* C9 witness: the ordering field is absent from the input batch, the custom
\* function added a column, and date_column leads the output.
C9_Witness ==
    /\ xf.kind = "ok"
    /\ ~OrderingFieldInInput
    /\ xf.input # <<>>
    /\ xf.custom = "add"
    /\ xf.out[1].name = N_date_column
    /\ Len(xf.out) = Len(xf.input) + 3

\* C10: date_column of every output of the auto transform has timestamp
\* type, also when the ordering field arrives as a string column.
C10_DateColumnIsTimestamp ==
    (xf.kind = "ok") =>
        \A j \in DOMAIN xf.out :
            (xf.out[j].name = N_date_column) => (xf.out[j].dtype = "datetime")

\* C11: in every output of the auto transform date_column equals, cell by
\* cell, the ordering field's destination column (final_field), also when
\* the input batch already carries a column named date_column.
C11_DateColumnEqualsOrderingField ==
    (xf.kind = "ok") =>
        /\ xf.final_field \in Range(names(xf.out))
        /\ N_date_column \in Range(names(xf.out))
        /\ pick(xf.out, N_date_column).cells = pick(xf.out, xf.final_field).cells

\* C12: after the transform every column named in the schema config's
\* date_cols has timestamp type and every column named in int_cols has
\* integer type, and the batch keeps its number of rows.
C12_DeclaredCasts ==
    (xf.kind = "ok") =>
        /\ \A j \in DOMAIN xf.out :
                /\ (xf.out[j].name \in Range(xf.schema_cfg.date_cols)) =>
                        (xf.out[j].dtype = "datetime")
                /\ (xf.out[j].name \in Range(xf.schema_cfg.int_cols)) =>
                        (xf.out[j].dtype = "int")
        /\ height(xf.out) = height(xf.input)

(***************************************************************************)
(* Properties of the clean runs, stated on the most recent one.            *)
(***************************************************************************)
RECURSIVE SumHeights(_)
SumHeights(lfs) == IF lfs = <<>> THEN 0 ELSE height(Head(lfs)) + SumHeights(Tail(lfs))

\* The rows of the merged frame that came from chunk i.
RowsOfChunk(lfs, i) ==
    (SumHeights(SubSeq(lfs, 1, i - 1)) + 1)..SumHeights(SubSeq(lfs, 1, i))

\* C13: every merge of transformed chunks a clean run computes has as many
\* rows as its chunks together, has the union of the chunks' columns, and
\* shows null, in a column a chunk lacks, on the rows that came from that
\* chunk.
C13_UnionMergeKeepsRows ==
    \A k \in DOMAIN clean.merges :
        LET lfs == clean.merges[k].chunks
            merged == clean.merges[k].merged
        IN  /\ height(merged) = SumHeights(lfs)
            /\ Range(names(merged)) = UNION {Range(names(lfs[i])) : i \in DOMAIN lfs}
            /\ \A j \in DOMAIN merged : Len(merged[j].cells) = SumHeights(lfs)
            /\ \A i \in DOMAIN lfs : \A j \in DOMAIN merged :
                    (merged[j].name \notin Range(names(lfs[i]))) =>
                        \A row \in RowsOfChunk(lfs, i) : merged[j].cells[row] = Null

\* C13 witness: a merge of two chunks, the first lacking a column of the
\* second, whose rows show null there.
C13_Witness ==
    /\ clean.kind = "done"
    /\ \E k \in DOMAIN clean.merges :
        LET lfs == clean.merges[k].chunks
            merged == clean.merges[k].merged
        IN  /\ Len(lfs) = 2
            /\ N_amt \notin Range(names(lfs[1]))
            /\ N_amt \in Range(names(lfs[2]))
            /\ N_amt \in Range(names(merged))
            /\ pick(merged, N_amt).cells[1] = Null
            /\ pick(merged, N_amt).cells[2] # Null
            /\ height(merged) = 2

(***************************************************************************)
(* Properties of the large raw run, stated on the run's log.               *)
(***************************************************************************)
\* The first day of the month after t's, at t's hour.
FirstOfNextMonth(t) ==
    IF t.m = 12 THEN DT(t.y + 1, 1, 1, t.h) ELSE DT(t.y, t.m + 1, 1, t.h)

\* The windows are one per calendar month, back to back, from the month of
\* start_date on, and cover [start_date, end_date).
WindowsAreCalendarMonths(W, start_date, end_date) ==
    /\ W # <<>>
    /\ W[1].win_start.y = start_date.y
    /\ W[1].win_start.m = start_date.m
    /\ W[1].win_start.d = 1
    /\ \A i \in DOMAIN W :
            /\ W[i].win_end = FirstOfNextMonth(W[i].win_start)
            /\ (i < Len(W)) => (W[i + 1].win_start = W[i].win_end)
    /\ ~Before(start_date, W[1].win_start)
    /\ ~Before(W[Len(W)].win_end, end_date)

\* C14: a large raw run with start_date < end_date uses one window per
\* calendar month, the first starting on the first day of start_date's
\* month, each ending where the next begins, together covering
\* [start_date, end_date); with start_date >= end_date the run has no
\* window and makes no fetch.
C14_MonthlyWindows ==
    (job.tier = "large" /\ lrun.pc # "idle") =>
        /\ Before(job.start_date, job.end_date) =>
                WindowsAreCalendarMonths(lrun.windows, job.start_date, job.end_date)
        /\ ~Before(job.start_date, job.end_date) =>
                (lrun.windows = <<>> /\ lrun.fetches = <<>>)

\* The number of writes before the j-th that went to the same window.
EarlierInWindow(W, j) == Cardinality({i \in 1..(j - 1) : W[i].w = W[j].w})

\* A large raw run visits its windows in chronological order; a window's
\* paging ends with an empty page before the next window's first fetch;
\* within a window the offsets grow by the limit from 0; every fetch bounds
\* the ordering column by [Lo(window), Hi(window)); the non-empty pages are
\* written as chunks 1, 2, ... of their window, under that window's
\* year=/month= directory, and no two writes of the run have the same path.
WindowedPaging(Lo(_), Hi(_)) ==
    (job.tier = "large") =>
        LET F == lrun.fetches
            W == lrun.writes
            Win == lrun.windows
        IN  /\ \A i \in DOMAIN Win : (i < Len(Win)) =>
                    Before(Win[i].win_start, Win[i + 1].win_start)
            /\ (F # <<>>) => (F[1].w = 1 /\ F[1].offset = 0)
            /\ \A i \in DOMAIN F : (i < Len(F)) =>
                    IF F[i + 1].w = F[i].w
                    THEN /\ NonEmptyFetch(F[i])
                         /\ F[i + 1].offset = F[i].offset + lrun.limit
                    ELSE /\ F[i + 1].w = F[i].w + 1
                         /\ F[i].kind # "raise"
                         /\ F[i].recs = <<>>
                         /\ F[i + 1].offset = 0
            /\ \A i \in DOMAIN F :
                    LET win == Win[F[i].w]
                    IN  /\ F[i].where.token = N_ts
                        /\ F[i].where.lo = Lo(win)
                        /\ F[i].where.hi = Hi(win)
            /\ Len(W) + (IF lrun.pc = "writing" THEN 1 ELSE 0)
                    = Cardinality({i \in DOMAIN F : NonEmptyFetch(F[i])})
            /\ \A j \in DOMAIN W :
                    /\ NonEmptyFetch(F[W[j].fetch])
                    /\ F[W[j].fetch].w = W[j].w
                    /\ W[j].batch = EarlierInWindow(W, j) + 1
                    /\ W[j].year = Win[W[j].w].win_start.y
                    /\ W[j].month = Win[W[j].w].win_start.m
                    /\ W[j].path = HiveChunkPath(RAW_LAKE_PATH, RawKey(large_name), W[j].batch,
                                                 W[j].year, W[j].month)
                    /\ FrameIds(W[j].frame) = RecIds(F[W[j].fetch].recs)
            /\ \A i, j \in DOMAIN W : (i # j) => (W[i].path # W[j].path)

\* The first day of t's month at 00:00:00.
MonthMidnight(t) == DT(t.y, t.m, 1, 0)

\* C15 as stated: windowed paging as above, every fetch carrying the $where
\* bound [window_start, window_end) of its window.
C15_WindowedPaging ==
    WindowedPaging(LAMBDA win : win.win_start, LAMBDA win : win.win_end)

\* C15 amended: windowed paging as above, every fetch carrying as $where
\* bound the calendar month of its window from midnight to midnight, which
\* is [window_start, window_end) with the time of day of start_date dropped.
C15_WindowedPagingByMonth ==
    WindowedPaging(LAMBDA win : MonthMidnight(win.win_start),
                   LAMBDA win : MonthMidnight(win.win_end))

\* C15 witness: a finished run of an asset whose start_date has a time of
\* day, over two windows, one chunk in the first and chunks 1 and 2 in the
\* second; the $where of its first fetch starts before the window does.
C15_Witness ==
    /\ job.tier = "large"
    /\ job.start_date.h # 0
    /\ lrun.pc = "done"
    /\ Len(lrun.windows) = 2
    /\ Len(lrun.writes) = 3
    /\ Before(lrun.fetches[1].where.lo, lrun.windows[1].win_start)
    /\ lrun.writes[1].w = 1 /\ lrun.writes[1].batch = 1
    /\ lrun.writes[2].w = 2 /\ lrun.writes[2].batch = 1
    /\ lrun.writes[3].w = 2 /\ lrun.writes[3].batch = 2
    /\ lrun.writes[1].path # lrun.writes[2].path


(***************************************************************************)
(* Properties of the large tier's clean run.                               *)
(***************************************************************************)

\* The raw chunks of the lake under the large asset's year=y directory, of
\* month m only unless m is NoMonth.
RawChunksOf(lake, y, m) ==
    {f \in lake :
        \E mm \in (IF m = NoMonth THEN 1..12 ELSE {m}) : \E b \in 1..Cardinality(lake) :
            f.path = HiveChunkPath(RAW_LAKE_PATH, RawKey(large_name), b, y, mm)}

RECURSIVE SumRows(_)
SumRows(S) ==
    IF S = {} THEN 0
    ELSE LET f == CHOOSE g \in S : TRUE IN height(f.frame) + SumRows(S \ {f})

\* The periods of the lake that hold a raw chunk, at the granularity.
NonEmptyPeriods(lake, granularity) ==
    {p \in (2019..2022) \X (IF granularity = "month" THEN 1..12 ELSE {NoMonth}) :
        RawChunksOf(lake, p[1], p[2]) # {}}

\* C16: a large clean run ends without error; it writes exactly one clean
\* partition, batch 1 under the clean lake, for each period (month or year,
\* as the granularity says) that holds a raw chunk and none for any other
\* period; a partition holds the rows of all the raw chunks of its period
\* (for a year, of all its months); the run returns the number of
\* partitions written.
C16_CleanPartitions ==
    (job.tier = "large" /\ clean.kind # "none") =>
        LET periods == NonEmptyPeriods(clean.lake, job.partition_granularity)
            W == clean.writes
        IN  /\ clean.kind = "done"
            /\ clean.processed = Cardinality(periods)
            /\ Len(W) = Cardinality(periods)
            /\ \A p \in periods :
                \E k \in DOMAIN W :
                    LET raw == RawChunksOf(clean.lake, p[1], p[2])
                    IN  /\ W[k].path = HiveChunkPath(CLEAN_LAKE_PATH, large_name, 1, p[1], p[2])
                        /\ height(W[k].frame) = SumRows(raw)
                        /\ Range(FrameIds(W[k].frame))
                             = UNION {Range(FrameIds(f.frame)) : f \in raw}
                        /\ \E g \in disk : g.path = W[k].path /\ g.frame = W[k].frame
            /\ \A k \in DOMAIN W : \A l \in DOMAIN W : (k # l) => W[k].path # W[l].path

\* C16 witness: a yearly clean run over a lake with chunks in December 2020
\* and in January and February 2021 has written two partitions, the one of
\* 2021 holding the three rows of its two months.
C16_Witness ==
    /\ job.tier = "large" /\ job.partition_granularity = "year"
    /\ clean.kind = "done"
    /\ clean.processed = 2
    /\ RawChunksOf(clean.lake, 2020, 12) # {}
    /\ RawChunksOf(clean.lake, 2021, 1) # {}
    /\ RawChunksOf(clean.lake, 2021, 2) # {}
    /\ \E k \in DOMAIN clean.writes :
        /\ clean.writes[k].path = HiveChunkPath(CLEAN_LAKE_PATH, large_name, 1, 2021, NoMonth)
        /\ height(clean.writes[k].frame) = 3


(***************************************************************************)
(* Properties of a failing fetch inside a raw run.                         *)
(***************************************************************************)

\* A run whose log holds a raising fetch: that fetch is the last one, the
\* run has failed and returned nothing, and the chunks written before are
\* on disk.
RaiseEndsRun(st, files) ==
    /\ \A i \in DOMAIN st.fetches :
            (st.fetches[i].kind = "raise") => (i = Len(st.fetches) /\ st.pc = "failed")
    /\ (st.pc = "failed") =>
            /\ st.fetches # <<>>
            /\ st.fetches[Len(st.fetches)].kind = "raise"
            /\ Len(st.writes) = Cardinality({i \in DOMAIN st.fetches : NonEmptyFetch(st.fetches[i])})
            /\ \A k \in DOMAIN st.writes :
                    \E f \in files : f.path = st.writes[k].path /\ f.frame = st.writes[k].frame
    /\ (st.pc = "done") => \A i \in DOMAIN st.fetches : st.fetches[i].kind # "raise"

\* C17: in a raw run of any tier an exception of fetch_data is not caught:
\* the raising fetch is the run's last, the run ends as failed and not as
\* done, no chunk is written after it, and the chunks written before it are
\* still on disk (a single run has written nothing).
C17_FetchErrorEndsRun ==
    /\ (job.tier \in {"single", "medium"}) => RaiseEndsRun(run, disk)
    /\ (job.tier = "large") => RaiseEndsRun(lrun, disk)
    /\ (job.tier = "single" /\ run.pc = "failed") => run.writes = <<>>

\* C17 witness: a medium raw run that wrote a chunk and then met a raising
\* fetch; the chunk is on disk.
C17_Witness ==
    /\ job.tier = "medium"
    /\ run.pc = "failed"
    /\ Len(run.fetches) = 2
    /\ run.fetches[2].kind = "raise"
    /\ Len(run.writes) = 1
    /\ \E f \in disk : f.path = run.writes[1].path


(***************************************************************************)
(* Properties of a clean run over an empty raw lake.                       *)
(***************************************************************************)

\* C18: a clean run that finds no raw data calls no transform and writes no
\* clean file: the single tier ends with the input's file-not-found error,
\* the medium tier returns without a frame, the large tier returns zero
\* partitions.
C18_NoRawDataNoCleanFile ==
    (clean.kind # "none" /\ clean.lake = {}) =>
        /\ clean.writes = <<>>
        /\ clean.merges = <<>>
        /\ clean.transforms = 0
        /\ \A f \in disk : ~StartsWith(f.path, CLEAN_LAKE_PATH)
        /\ (job.tier = "single") =>
                (clean.kind = "not_found" /\ clean.result = "FileNotFoundError")
        /\ (job.tier = "medium") => clean.kind = "skip"
        /\ (job.tier = "large") => (clean.kind = "done" /\ clean.processed = 0)

\* C18 witness: a medium clean run after a raw run that found the dataset
\* empty: the raw run is done, there is no raw chunk, the clean run skipped.
C18_Witness ==
    /\ job.tier = "medium"
    /\ run.pc = "done"
    /\ run.writes = <<>>
    /\ clean.kind = "skip"
    /\ clean.lake = {}
    /\ disk = {}


(***************************************************************************)
(* Properties of the builders.                                             *)
(***************************************************************************)

\* Nothing has been fetched, read or written.
NoIO == cache = NoCache /\ call = NoCall /\ netlast = NoCache /\ disk = {}

\* C19: a call of build_large_socrata_asset with a partition_granularity
\* that is neither "month" nor "year" ends with a ValueError raised by the
\* first statement of the builder: the transform is not resolved, neither
\* operation is created, nothing is fetched and no file is touched.
C19_GranularityChecked ==
    (build.kind \in {"ok", "error"} /\ build.args.tier = "large"
        /\ build.args.partition_granularity \notin {"month", "year"}) =>
        /\ build.kind = "error"
        /\ build.error = "ValueError"
        /\ build.steps = <<"check_granularity">>
        /\ build.ops = {}
        /\ NoIO

\* C19 witness: the large builder called with "Month" and otherwise valid
\* arguments has raised.
C19_Witness ==
    /\ build.kind = "error"
    /\ build.args.tier = "large"
    /\ build.args.partition_granularity = "Month"
    /\ ~build.args.schema_cfg.none
    /\ \E i \in DOMAIN build.args.schema_cfg.v : build.args.schema_cfg.v[i].k = "date_cols"
    /\ build.args.order_field = Some(order_chars)
    /\ build.steps = <<"check_granularity">>

\* C20: a builder of any tier called without transform_fn ends with a
\* configuration error, no operation's transform resolved and nothing
\* fetched or written, when schema_cfg is missing, when schema_cfg is given
\* and order_field is missing or empty, and when schema_cfg is a dict with
\* none of the keys the transform reads.
C20_ConfigErrors ==
    (build.kind \in {"ok", "error"} /\ ~build.args.transform_fn
        /\ build.args.partition_granularity \in {"month", "year"}) =>
        LET a == build.args
            bad == \/ a.schema_cfg.none
                   \/ a.order_field.none \/ a.order_field.v = <<>>
                   \/ a.schema_cfg.v = <<>>
        IN  bad => (build.kind = "error" /\ "clean" \notin build.ops /\ NoIO)

(***************************************************************************)
(* Properties of the path resolver.                                        *)
(***************************************************************************)
\* The layout of a resolved path, written out as the string it is:
\* <base>/<asset>/<asset>.parquet, <base>/<asset>/<asset>_<batch>.parquet and
\* <base>/<asset>/year=YYYY[/month=MM]/<asset>_<YYYY[MM]>_<batch>.parquet.
LayoutString(c) ==
    LET b == PathString(c.base_dir)
        a == PathString(c.asset)
        yyyy == IF c.year.none THEN <<>> ELSE zfill(digits(c.year.v), 4)
        mm == IF c.month.none THEN <<>> ELSE zfill(digits(c.month.v), 2)
        ext == <<".", "p", "a", "r", "q", "u", "e", "t">>
    IN  CASE c.mode = "single" -> b \o <<"/">> \o a \o <<"/">> \o a \o ext
          [] c.mode = "flat_chunk" ->
                b \o <<"/">> \o a \o <<"/">> \o a \o <<"_">> \o digits(c.batch.v) \o ext
          [] OTHER ->
                b \o <<"/">> \o a \o <<"/", "y", "e", "a", "r", "=">> \o yyyy
                  \o (IF c.month.none THEN <<>> ELSE <<"/", "m", "o", "n", "t", "h", "=">> \o mm)
                  \o <<"/">> \o a \o <<"_">> \o yyyy \o mm \o <<"_">> \o digits(c.batch.v) \o ext

\* The calls the resolver refuses: flat_chunk without a batch, hive_chunk
\* without a year or without a batch.
Refused(c) ==
    \/ c.mode = "flat_chunk" /\ c.batch.none
    \/ c.mode = "hive_chunk" /\ (c.year.none \/ c.batch.none)

\* C21: the resolved path depends on nothing but (base_dir, mode, asset,
\* batch, year, month): the same call made twice gives the same answer; the
\* answer has the layout of its mode; single mode needs no batch, year or
\* month, flat_chunk fails without a batch and hive_chunk fails without a
\* year or without a batch.
C21_PathLayouts ==
    pcall.kind = "done" =>
        /\ pcall.calls[1] = pcall.calls[2] => pcall.out[1] = pcall.out[2]
        /\ \A i \in DOMAIN pcall.calls :
              /\ pcall.out[i].ok = ~Refused(pcall.calls[i])
              /\ pcall.out[i].ok =>
                    PathString(pcall.out[i].path) = LayoutString(pcall.calls[i])

\* A monthly hive_chunk path with a three-digit year has been resolved.
C21_Witness ==
    /\ pcall.kind = "done"
    /\ pcall.calls[1].mode = "hive_chunk"
    /\ pcall.calls[1].year = Some(987)
    /\ pcall.calls[1].month = Some(1)
    /\ pcall.calls[1].batch = Some(10)
    /\ pcall.out[1].ok
    /\ pcall.calls[2].mode = "hive_chunk"

\* C23: two assets with distinct names never write the same file: a path a
\* raw or clean operation of one asset resolves differs from every path an
\* operation of the other resolves, whatever the tier, batch, year and month.
C23_AssetPathsDisjoint ==
    (/\ pcall.kind = "done"
     /\ PathString(pcall.owners[1]) # PathString(pcall.owners[2]))
        => /\ pcall.out[1].ok
           /\ pcall.out[2].ok
           /\ PathString(pcall.out[1].path) # PathString(pcall.out[2].path)

\* The raw file of one asset and the clean file of the asset named like
\* its raw key have both been resolved.
C23_Witness ==
    /\ pcall.kind = "done"
    /\ pcall.owners = <<asset_name, RawKey(asset_name)>>
    /\ pcall.calls[1].base_dir = RAW_LAKE_PATH
    /\ pcall.calls[2].base_dir = CLEAN_LAKE_PATH
    /\ pcall.calls[1].asset = pcall.calls[2].asset
    /\ pcall.calls[1].mode = "single"
    /\ pcall.calls[2].mode = "single"

(***************************************************************************)
(* Properties of the writers.                                              *)
(***************************************************************************)
\* The columns of a frame that hold a non-null cell, in the frame's order.
WithValue(df) == SelectSeq(df, LAMBDA c : \E i \in DOMAIN c.cells : c.cells[i] # Null)

\* The one file a writer call left.
WrittenFrame == (CHOOSE f \in disk : TRUE).frame

\* C22: a write that is not streamed (write_chunk, and write_single handed a
\* materialized frame) persists exactly the columns that hold a non-null
\* cell, a column being dropped exactly when all its cells are null; the
\* streamed write_single of a lazy frame persists every column.
C22_NullColumnPruning ==
    (pcall.kind = "written" /\ pcall.out[1].ok) =>
        /\ Cardinality(disk) = 1
        /\ WrittenFrame = IF pcall.calls[1].obj.lazy THEN pcall.calls[1].obj.df
                          ELSE WithValue(pcall.calls[1].obj.df)

\* write_chunk has dropped the all-null column of a frame and kept the other.
C22_Witness ==
    /\ pcall.kind = "written"
    /\ pcall.out[1].ok
    /\ pcall.calls[1].op = "write_chunk"
    /\ Len(pcall.calls[1].obj.df) = 2
    /\ Len(WrittenFrame) = 1

(***************************************************************************)
(* Properties of a second pass of the auto transform.                      *)
(***************************************************************************)
\* C24: the auto transform applied a second time, with the same schema
\* config, to the output of a first pass succeeds and leaves every cell
\* value unchanged: the columns are the same, in any order.
C24_SecondPassKeepsCells ==
    (xf.kind \in {"again_ok", "again_error"} /\ xf.custom = "none") =>
        /\ xf.kind = "again_ok"
        /\ Range(xf.out) = Range(xf.input)
        /\ Len(xf.out) = Len(xf.input)

(***************************************************************************)
(* Properties of the warehouse builder.                                    *)
(***************************************************************************)
\* The kinds, in priority order, with the pattern of each under a root.
KindOrder == <<"hive_monthly", "hive_yearly", "flat", "deep">>

KindMatches(files, root, kind) ==
    CASE kind = "hive_monthly" -> MatchesHiveMonthly(files, SplitPath(root))
      [] kind = "hive_yearly" -> MatchesHiveYearly(files, SplitPath(root))
      [] kind = "flat" -> MatchesFlat(files, SplitPath(root))
      [] OTHER -> MatchesDeep(files, SplitPath(root))

KindPat(root, kind) ==
    CASE kind = "hive_monthly" -> HiveMonthlyPat(root)
      [] kind = "hive_yearly" -> HiveYearlyPat(root)
      [] kind = "flat" -> FlatPat(root)
      [] OTHER -> DeepPat(root)

AssetRoot(layer, asset) == LayerPath(layer) \o <<"/">> \o asset

\* Some candidate pattern matches a file of the asset in the layer.
LayerHasMatch(files, layer, asset) ==
    \E k \in DOMAIN KindOrder : KindMatches(files, AssetRoot(layer, asset), KindOrder[k])

\* item names the first layer of search_order with a match and, within it,
\* the first kind that matches.
IsFirstMatch(files, search_order, item) ==
    \E i \in DOMAIN search_order :
        /\ LayerHasMatch(files, search_order[i], item.asset)
        /\ \A j \in 1..(i - 1) : ~LayerHasMatch(files, search_order[j], item.asset)
        /\ \E k \in DOMAIN KindOrder :
              /\ item.kind = KindOrder[k]
              /\ item.pat = KindPat(AssetRoot(search_order[i], item.asset), KindOrder[k])
              /\ KindMatches(files, AssetRoot(search_order[i], item.asset), KindOrder[k])
              /\ \A l \in 1..(k - 1) :
                    ~KindMatches(files, AssetRoot(search_order[i], item.asset), KindOrder[l])

\* The assets of the config that --only and --exclude let through.
Considered ==
    {a \in Range(wh.cfg.assets) :
        /\ wh.args.only = {} \/ a \in wh.args.only
        /\ ~\E tok \in wh.args.exclude : Contains(PathString(a), PathString(tok))}

\* C25: autodetection returns for an asset the first layer of search_order in
\* which a candidate pattern matches a file and, within that layer, the
\* first matching pattern in the order hive_monthly, hive_yearly, flat,
\* deep; files only under year=YYYY/month=MM/ give hive_monthly, and no
\* match in any layer gives no result.
C25_Autodetect ==
    wh.pc \notin {"idle", "start"} =>
        /\ \A i \in DOMAIN wh.selected :
              IsFirstMatch(wh.lake, wh.cfg.search_order, wh.selected[i])
        /\ \A i \in DOMAIN wh.skipped :
              \A l \in DOMAIN wh.cfg.search_order :
                  ~LayerHasMatch(wh.lake, wh.cfg.search_order[l], wh.skipped[i])
        /\ {wh.selected[i].asset : i \in DOMAIN wh.selected} \cup Range(wh.skipped)
              = Considered
        /\ wh.lake = {LakeFile(HiveChunkPath(CLEAN_LAKE_PATH, WhAsset1, 1, 2023, 1))}
              => \A i \in DOMAIN wh.selected : wh.selected[i].kind = "hive_monthly"

\* The first layer of search_order holds a flat file of the asset and a
\* later layer a monthly one: the asset is detected flat, in the first layer.
C25_Witness ==
    /\ wh.pc = "done"
    /\ wh.cfg.search_order = <<"raw", "clean">>
    /\ wh.lake = {LakeFile(SinglePath(RAW_LAKE_PATH, WhAsset1)),
                  LakeFile(HiveChunkPath(CLEAN_LAKE_PATH, WhAsset1, 1, 2023, 1))}
    /\ Len(wh.selected) = 1
    /\ wh.selected[1].kind = "flat"
    /\ wh.skipped = <<WhAsset2>>

\* The build of the state has ended with an error.
BuildFailed == wh.pc = "failed"

\* The build of the state has ended with the warehouse replaced.
BuildDone == wh.pc = "done" /\ wh.result = "0"

\* The registry holds one row per asset this build selected, and the
\* database one view or table per such asset, and nothing else.
RegistryIsThisBuild(db) ==
    /\ Len(db.registry) = Len(wh.selected)
    /\ \A i \in DOMAIN wh.selected :
          Cardinality({j \in DOMAIN db.registry : db.registry[j] = wh.selected[i]}) = 1
    /\ {o.name : o \in db.objects} = {wh.selected[i].asset : i \in DOMAIN wh.selected}

\* C26: a build never fails because an asset has no files: an asset without
\* files is skipped and the others are still registered; after every build
\* the registry holds exactly one row per asset registered by this build
\* and no row of an earlier build.
C26_SkipNeverFails ==
    /\ (BuildFailed /\ wh.skipped # <<>>) => wh.error = "IOException"
    /\ BuildDone => RegistryIsThisBuild(wh.db)

\* C27: with --no-wipe and a warehouse file already there, the file is kept:
\* after the build it still holds every view, table and registry row it
\* held before.
C27_NoWipeKeepsContents ==
    (BuildDone /\ ~wh.args.wipe /\ wh.before.exists) =>
        /\ wh.db.exists
        /\ {o.name : o \in wh.before.objects} \subseteq {o.name : o \in wh.db.objects}
        /\ {r.asset : r \in Range(wh.before.registry)}
              \subseteq {r.asset : r \in Range(wh.db.registry)}

\* C28: the warehouse write is atomic: at every point of a build, and after
\* a build that failed at any step, the warehouse path holds the complete
\* previous warehouse or the complete new one, never no file or a partly
\* built one.
C28_AtomicWrite ==
    (wh.pc \notin {"idle", "start"} /\ wh.before.exists) =>
        \/ wh.db = wh.before
        \/ wh.db.exists /\ wh.db.complete /\ RegistryIsThisBuild(wh.db)

(***************************************************************************)
(* Properties of the clean files.                                          *)
(***************************************************************************)
\* The file at path p has date_column as its first column.
DateColumnFirst(p) ==
    \E f \in disk : /\ f.path = p
                    /\ f.frame # <<>>
                    /\ f.frame[1].name = N_date_column

\* C29: every clean file a tier persists has date_column as its first
\* column, also when the ordering column was dropped from a raw chunk by the
\* pruning of the raw write or is null in every row of the clean partition.
C29_DateColumnFirst ==
    clean.kind = "done" =>
        \A i \in DOMAIN clean.writes : DateColumnFirst(clean.writes[i].path)

(***************************************************************************)
(* Properties of the order of consolidation.                               *)
(***************************************************************************)
\* The ids of the rows of a frame, in row order.
IdsOf(df) == pick(df, N_id).cells

\* C30: the clean consolidation concatenates the raw chunks of an asset
\* (medium) or of a partition (large) in increasing batch-number order, for
\* any number of chunks, ten and more included: the rows of the clean output
\* follow the order in which the pages were fetched.
C30_ChunksInBatchOrder ==
    clean.kind = "done" =>
        \A i \in DOMAIN clean.merges :
            /\ Len(clean.merges[i].files) = Cardinality(clean.lake)
            /\ IdsOf(clean.merges[i].merged)
                  = [b \in 1..Cardinality(clean.lake) |-> Str(digits(b))]

====
